---- MODULE Spec2Model ----
(***************************************************************************)
(* Compressed posting list of lib/sparse (posting_list2.rs): the list, its  *)
(* builder, the append-upsert, save/load and the skipping iterator; the      *)
(* dashboard of active issues of lib/common/issues (dashboard.rs); and the  *)
(* deleted flags of the appendable multi-vector storage of lib/segment.     *)
(*                                                                          *)
(* Indices kept in the iterator (decompressed_chunk_idx,                    *)
(* decompressed_chunk_start_index, lalala) and byte offsets are 0-based as  *)
(* in the Rust code; TLA+ sequences are 1-based, so accesses add 1.         *)
(* Option<T> is a sequence of length 0 (None) or 1 (Some).                  *)
(* A weight stands for the 32-bit pattern of an f32.                        *)
(***************************************************************************)
EXTENDS Integers, Sequences, FiniteSets, TLC

(* pl       the PostingList                                                  *)
(* it       the PostingListIterator borrowing pl, None when there is none;   *)
(*          under SpecShared the two iterators that borrow pl together       *)
(* elems    history: the (id, weight) entries put into pl, in id order       *)
(* consumed history: the elements the iterator's callers have taken so far   *)
(*          (under SpecShared one count for each iterator)                   *)
(* ended    history: skip_to_end() was called on the iterator                *)
(* yielded  history: the id of the last element the iterator handed out and  *)
(*          moved past, None when there is none                              *)
(* res      the last call and what it returned                               *)
(* issues   Dashboard::issues, the map from the codes of the active issues   *)
(*          to their records                                                 *)
(* threads  the calls that threads sharing the dashboard are making: for each  *)
(*          thread its call, where it stands in it and what it returned      *)
(* storage  the AppendableMmapMultiDenseVectorStorage: vectors, deleted and    *)
(*          deleted_count                                                    *)
VARIABLES pl, it, elems, consumed, ended, yielded, res, issues, threads, storage

vars == <<pl, it, elems, consumed, ended, yielded, res, issues, threads, storage>>

----------------------------------------------------------------------------
(* Bounds of the model *)

\* BitPackerImpl::BLOCK_LEN is 8 * BlockScale; BitPacker4x has BlockScale 16.
BlockScale == 1

BLOCK_LEN == 8 * BlockScale

\* The longest list holds two full blocks and a tail of MaxTail elements.
MaxTail == 1

MaxLen == 2 * BLOCK_LEN + MaxTail

None == <<>>

Some(x) == <<x>>

USIZE_MAX == 2147483647

----------------------------------------------------------------------------
(* The block codec (bitpacking crate, BitPacker4x, strictly sorted deltas):  *)
(* the deltas of a block are written as fields of num_bits bits each, num_bits *)
(* the width of the largest delta (0 when every delta is 0), in               *)
(* num_bits * BLOCK_LEN / 8 bytes.  The fields are laid out one after the     *)
(* other, least significant bit first.                                        *)

RECURSIVE Pow2(_)
Pow2(n) == IF n = 0 THEN 1 ELSE 2 * Pow2(n - 1)

RECURSIVE BitLen(_)
BitLen(x) == IF x = 0 THEN 0 ELSE 1 + BitLen(x \div 2)

Max(a, b) == IF a >= b THEN a ELSE b

\* Option<u32>::checked_sub(1) of chunk.initial
CheckedSub1(x) == IF x >= 1 THEN Some(x - 1) ELSE None

\* d_1 = id_1 - prev - 1 (prev = None counts as -1), d_i = id_i - id_(i-1) - 1
Deltas(prev, block) ==
    [i \in 1..Len(block) |->
        IF i = 1
        THEN IF prev = None THEN block[1] ELSE block[1] - prev[1] - 1
        ELSE block[i] - block[i - 1] - 1]

RECURSIVE MaxBitLen(_, _)
MaxBitLen(d, n) == IF n = 0 THEN 0 ELSE Max(BitLen(d[n]), MaxBitLen(d, n - 1))

num_bits_strictly_sorted(prev, block) == MaxBitLen(Deltas(prev, block), Len(block))

compressed_block_size(bits) == (bits * BLOCK_LEN) \div 8

\* bit b (0-based) of the stream of bits-wide little-endian fields
FieldBit(d, bits, b) == (d[(b \div bits) + 1] \div Pow2(b % bits)) % 2

RECURSIVE ByteOf(_, _, _, _)
ByteOf(d, bits, j, t) ==
    IF t = 8 THEN 0
    ELSE FieldBit(d, bits, 8 * j + t) * Pow2(t) + ByteOf(d, bits, j, t + 1)

compress_strictly_sorted(prev, block, bits) ==
    LET d == Deltas(prev, block)
    IN [j \in 1..compressed_block_size(bits) |-> ByteOf(d, bits, j - 1, 0)]

ByteBit(bytes, b) == (bytes[(b \div 8) + 1] \div Pow2(b % 8)) % 2

RECURSIVE FieldOf(_, _, _, _)
FieldOf(bytes, bits, i, t) ==
    IF t = bits THEN 0
    ELSE ByteBit(bytes, bits * i + t) * Pow2(t) + FieldOf(bytes, bits, i, t + 1)

RECURSIVE Undelta(_, _, _, _, _)
Undelta(prev, bytes, bits, i, acc) ==
    IF i = BLOCK_LEN THEN acc
    ELSE LET d == FieldOf(bytes, bits, i, 0)
             p == IF i = 0
                  THEN IF prev = None THEN 0 - 1 ELSE prev[1]
                  ELSE acc[i]
         IN Undelta(prev, bytes, bits, i + 1, Append(acc, p + 1 + d))

decompress_strictly_sorted(prev, bytes, bits) == Undelta(prev, bytes, bits, 0, <<>>)

----------------------------------------------------------------------------
(* PostingList *)

\* a variant of EmptyList that starts with a cached last element
EmptyListCachedLast ==
    [id_data |-> <<>>, chunks |-> <<>>, remainders |-> <<>>,
     last |-> <<[record_id |-> 0, weight |-> 1, max_next_weight |-> 1]>>]

\* PostingList::default()
EmptyList == [id_data |-> <<>>, chunks |-> <<>>, remainders |-> <<>>, last |-> None]

PostingElement(id, w, m) == [record_id |-> id, weight |-> w, max_next_weight |-> m]

PostingElement0(id, w) == [record_id |-> id, weight |-> w]

\* a variant of len that forgets the remainders
ListLenChunksOnly(list) == Len(list.chunks) * BLOCK_LEN

\* PostingList::len
ListLen(list) == Len(list.chunks) * BLOCK_LEN + Len(list.remainders)

Ids(s) == [i \in 1..Len(s) |-> s[i].record_id]

Weights(s) == [i \in 1..Len(s) |-> s[i].weight]

\* a variant of EmitChunk that keeps the remainders it has just packed
EmitChunkKeepsRemainders(list) ==
    LET chunk == [initial |-> list.remainders[1].record_id,
                  offset  |-> Len(list.id_data),
                  weights |-> Weights(list.remainders)]
        this_chunk == Ids(list.remainders)
        chunk_bits == num_bits_strictly_sorted(CheckedSub1(chunk.initial), this_chunk)
    IN [list EXCEPT
          !.id_data = SubSeq(list.id_data, 1, chunk.offset)
                      \o compress_strictly_sorted(CheckedSub1(chunk.initial),
                                                  this_chunk, chunk_bits),
          !.chunks = Append(list.chunks, chunk)]

\* a variant of EmitChunk that zeroes the bytes of the earlier chunks
EmitChunkClearsData(list) ==
    LET chunk == [initial |-> list.remainders[1].record_id,
                  offset  |-> Len(list.id_data),
                  weights |-> Weights(list.remainders)]
        this_chunk == Ids(list.remainders)
        chunk_bits == num_bits_strictly_sorted(CheckedSub1(chunk.initial), this_chunk)
    IN [list EXCEPT
          !.id_data = [j \in 1..chunk.offset |-> 0]
                      \o compress_strictly_sorted(CheckedSub1(chunk.initial),
                                                  this_chunk, chunk_bits),
          !.chunks = Append(list.chunks, chunk),
          !.remainders = <<>>]

\* a variant of EmitChunk whose header takes the id of the last element for initial
EmitChunkInitialLast(list) ==
    LET chunk == [initial |-> list.remainders[1].record_id,
                  offset  |-> Len(list.id_data),
                  weights |-> Weights(list.remainders)]
        this_chunk == Ids(list.remainders)
        chunk_bits == num_bits_strictly_sorted(CheckedSub1(chunk.initial), this_chunk)
    IN [list EXCEPT
          !.id_data = SubSeq(list.id_data, 1, chunk.offset)
                      \o compress_strictly_sorted(CheckedSub1(chunk.initial),
                                                  this_chunk, chunk_bits),
          !.chunks = Append(list.chunks,
                            [chunk EXCEPT !.initial = list.remainders[BLOCK_LEN].record_id]),
          !.remainders = <<>>]

\* a variant of EmitChunk that packs the chunk one bit wider than its ids need
EmitChunkOneBitWider(list) ==
    LET chunk == [initial |-> list.remainders[1].record_id,
                  offset  |-> Len(list.id_data),
                  weights |-> Weights(list.remainders)]
        this_chunk == Ids(list.remainders)
        chunk_bits == num_bits_strictly_sorted(CheckedSub1(chunk.initial), this_chunk) + 1
    IN [list EXCEPT
          !.id_data = SubSeq(list.id_data, 1, chunk.offset)
                      \o compress_strictly_sorted(CheckedSub1(chunk.initial),
                                                  this_chunk, chunk_bits),
          !.chunks = Append(list.chunks, chunk),
          !.remainders = <<>>]

\* The block-emitting branch of upsert: remainders.len() == BLOCK_LEN
EmitChunk(list) ==
    LET chunk == [initial |-> list.remainders[1].record_id,
                  offset  |-> Len(list.id_data),
                  weights |-> Weights(list.remainders)]
        this_chunk == Ids(list.remainders)
        chunk_bits == num_bits_strictly_sorted(CheckedSub1(chunk.initial), this_chunk)
    IN [list EXCEPT
          !.id_data = SubSeq(list.id_data, 1, chunk.offset)
                      \o compress_strictly_sorted(CheckedSub1(chunk.initial),
                                                  this_chunk, chunk_bits),
          !.chunks = Append(list.chunks, chunk),
          !.remainders = <<>>]

\* a variant of UpsertAccepts that also takes the id of the cached last element
UpsertAcceptsEqualId(list, element) ==
    IF list.last = None THEN TRUE ELSE list.last[1].record_id <= element.record_id

\* self.last.as_ref().map_or(true, |last| last.record_id < element.record_id)
UpsertAccepts(list, element) ==
    IF list.last = None THEN TRUE ELSE list.last[1].record_id < element.record_id

\* a variant of Upsert that never packs the remainders into a chunk
UpsertNeverEmits(list, element) ==
    IF UpsertAccepts(list, element)
    THEN [list |-> [list EXCEPT
                      !.last = Some(element),
                      !.remainders = Append(list.remainders,
                            PostingElement0(element.record_id, element.weight))],
          unimplemented |-> FALSE]
    ELSE [list |-> list, unimplemented |-> TRUE]

\* PostingList::upsert; the else branch is unimplemented!("Update is not implemented"),
\* a panic raised before self is touched
Upsert(list, element) ==
    IF UpsertAccepts(list, element)
    THEN LET pushed == [list EXCEPT
                          !.last = Some(element),
                          !.remainders = Append(list.remainders,
                                PostingElement0(element.record_id, element.weight))]
         IN [list |-> IF Len(pushed.remainders) = BLOCK_LEN
                      THEN EmitChunk(pushed) ELSE pushed,
             unimplemented |-> FALSE]
    ELSE [list |-> list, unimplemented |-> TRUE]

\* PostingList::get_chunk_size (chunk_index 0-based)
get_chunk_size(chunks, data, chunk_index) ==
    IF chunk_index + 1 < Len(chunks)
    THEN chunks[chunk_index + 2].offset - chunks[chunk_index + 1].offset
    ELSE Len(data) - chunks[chunk_index + 1].offset

\* a variant of decompress_chunk that decodes from initial, not from initial - 1
decompress_chunk_from_initial(list, chunk_index) ==
    LET chunk == list.chunks[chunk_index + 1]
        chunk_size == get_chunk_size(list.chunks, list.id_data, chunk_index)
        chunk_bits == (chunk_size * 8) \div BLOCK_LEN
    IN decompress_strictly_sorted(Some(chunk.initial),
            SubSeq(list.id_data, chunk.offset + 1, chunk.offset + chunk_size),
            chunk_bits)

\* PostingList::decompress_chunk
decompress_chunk(list, chunk_index) ==
    LET chunk == list.chunks[chunk_index + 1]
        chunk_size == get_chunk_size(list.chunks, list.id_data, chunk_index)
        chunk_bits == (chunk_size * 8) \div BLOCK_LEN
    IN decompress_strictly_sorted(CheckedSub1(chunk.initial),
            SubSeq(list.id_data, chunk.offset + 1, chunk.offset + chunk_size),
            chunk_bits)

----------------------------------------------------------------------------
(* PostingBuilder *)

\* sort_unstable_by_key(|e| e.record_id), as an insertion sort
RECURSIVE InsertSorted(_, _)
InsertSorted(s, e) ==
    IF s = <<>> THEN <<e>>
    ELSE IF s[Len(s)].record_id <= e.record_id THEN Append(s, e)
    ELSE Append(InsertSorted(SubSeq(s, 1, Len(s) - 1), e), s[Len(s)])

RECURSIVE SortByKey(_)
SortByKey(s) ==
    IF s = <<>> THEN <<>>
    ELSE InsertSorted(SortByKey(SubSeq(s, 1, Len(s) - 1)), s[Len(s)])

\* a variant of BuildChunks that leaves a byte of room after every chunk
RECURSIVE BuildChunksPadded(_, _, _, _)
BuildChunksPadded(elements, c, chunks, data_size) ==
    IF (c + 1) * BLOCK_LEN > Len(elements) THEN [chunks |-> chunks, data_size |-> data_size]
    ELSE LET chunk == SubSeq(elements, c * BLOCK_LEN + 1, (c + 1) * BLOCK_LEN)
             this_chunk == Ids(chunk)
             initial == this_chunk[1]
             chunk_bits == num_bits_strictly_sorted(CheckedSub1(initial), this_chunk)
         IN BuildChunksPadded(elements, c + 1,
                Append(chunks, [initial |-> initial, offset |-> data_size,
                                weights |-> Weights(chunk)]),
                data_size + compressed_block_size(chunk_bits) + 1)

\* first loop of build: one header per full chunk, offsets accumulated in data_size
RECURSIVE BuildChunks(_, _, _, _)
BuildChunks(elements, c, chunks, data_size) ==
    IF (c + 1) * BLOCK_LEN > Len(elements) THEN [chunks |-> chunks, data_size |-> data_size]
    ELSE LET chunk == SubSeq(elements, c * BLOCK_LEN + 1, (c + 1) * BLOCK_LEN)
             this_chunk == Ids(chunk)
             initial == this_chunk[1]
             chunk_bits == num_bits_strictly_sorted(CheckedSub1(initial), this_chunk)
         IN BuildChunks(elements, c + 1,
                Append(chunks, [initial |-> initial, offset |-> data_size,
                                weights |-> Weights(chunk)]),
                data_size + compressed_block_size(chunk_bits))

\* a variant of BuildRemainders that starts one element late
BuildRemaindersOffByOne(elements) ==
    SubSeq(elements, (Len(elements) \div BLOCK_LEN) * BLOCK_LEN + 2, Len(elements))

\* the partial last chunk, if any
BuildRemainders(elements) ==
    SubSeq(elements, (Len(elements) \div BLOCK_LEN) * BLOCK_LEN + 1, Len(elements))

\* second loop of build: chunk c is compressed into its offset window of id_data,
\* with the width recovered from the window's size
RECURSIVE BuildIdData(_, _, _, _)
BuildIdData(elements, chunks, c, id_data) ==
    IF c = Len(chunks) THEN id_data
    ELSE LET this_chunk == Ids(SubSeq(elements, c * BLOCK_LEN + 1, (c + 1) * BLOCK_LEN))
             chunk == chunks[c + 1]
             chunk_size == get_chunk_size(chunks, id_data, c)
             chunk_bits == (chunk_size * 8) \div BLOCK_LEN
             packed == compress_strictly_sorted(CheckedSub1(chunk.initial),
                                                this_chunk, chunk_bits)
         IN BuildIdData(elements, chunks, c + 1,
                [j \in 1..Len(id_data) |->
                    IF j > chunk.offset /\ j <= chunk.offset + chunk_size
                    THEN packed[j - chunk.offset] ELSE id_data[j]])

\* a variant of Build that caches the last remainder only
BuildLastOfRemainders(added) ==
    LET elements == SortByKey(added)
        hdr == BuildChunks(elements, 0, <<>>, 0)
        zeroed == [j \in 1..hdr.data_size |-> 0]
    IN [id_data    |-> BuildIdData(elements, hdr.chunks, 0, zeroed),
        chunks     |-> hdr.chunks,
        remainders |-> BuildRemainders(elements),
        last       |-> IF BuildRemainders(elements) = <<>> THEN None
                       ELSE LET e == elements[Len(elements)]
                            IN Some(PostingElement(e.record_id, e.weight, e.weight))]

\* PostingBuilder::build
Build(added) ==
    LET elements == SortByKey(added)
        hdr == BuildChunks(elements, 0, <<>>, 0)
        zeroed == [j \in 1..hdr.data_size |-> 0]
    IN [id_data    |-> BuildIdData(elements, hdr.chunks, 0, zeroed),
        chunks     |-> hdr.chunks,
        remainders |-> BuildRemainders(elements),
        last       |-> IF elements = <<>> THEN None
                       ELSE LET e == elements[Len(elements)]
                            IN Some(PostingElement(e.record_id, e.weight, e.weight))]

\* PostingList::from: add every record to a new builder, then build
From(records) ==
    Build([i \in 1..Len(records) |-> PostingElement0(records[i][1], records[i][2])])

----------------------------------------------------------------------------
(* save / load *)

\* u32::to_ne_bytes / f32::to_ne_bytes on a little-endian host
to_ne_bytes(x) ==
    <<x % 256, (x \div 256) % 256, (x \div 65536) % 256, (x \div 16777216) % 256>>

\* u32::from_ne_bytes of the 4 bytes at 0-based position pos
from_ne_bytes(bytes, pos) ==
    bytes[pos + 1] + 256 * bytes[pos + 2] + 65536 * bytes[pos + 3]
        + 16777216 * bytes[pos + 4]

RECURSIVE Flatten(_)
Flatten(ss) == IF ss = <<>> THEN <<>> ELSE ss[1] \o Flatten(Tail(ss))

\* a variant of SaveChunk that writes the weights of the chunk last to first
SaveChunkWeightsReversed(chunk) ==
    to_ne_bytes(chunk.initial) \o to_ne_bytes(chunk.offset)
        \o Flatten([i \in 1..Len(chunk.weights) |->
                        to_ne_bytes(chunk.weights[Len(chunk.weights) + 1 - i])])

SaveChunk(chunk) ==
    to_ne_bytes(chunk.initial) \o to_ne_bytes(chunk.offset)
        \o Flatten([i \in 1..Len(chunk.weights) |-> to_ne_bytes(chunk.weights[i])])

SaveRemainder(e) == to_ne_bytes(e.record_id) \o to_ne_bytes(e.weight)

\* PostingList::save: the bytes written to the file
Save(list) ==
    to_ne_bytes(Len(list.id_data)) \o to_ne_bytes(Len(list.chunks))
        \o to_ne_bytes(Len(list.remainders))
        \o list.id_data
        \o Flatten([i \in 1..Len(list.chunks) |-> SaveChunk(list.chunks[i])])
        \o Flatten([i \in 1..Len(list.remainders) |-> SaveRemainder(list.remainders[i])])

ChunkBytes == 8 + 4 * BLOCK_LEN

\* a variant of LoadChunk that reads every weight into the place after its own
LoadChunkWeightsShifted(bytes, pos) ==
    [initial |-> from_ne_bytes(bytes, pos),
     offset  |-> from_ne_bytes(bytes, pos + 4),
     weights |-> [i \in 1..BLOCK_LEN |->
                     from_ne_bytes(bytes, pos + 8 + 4 * ((i + BLOCK_LEN - 2) % BLOCK_LEN))]]

LoadChunk(bytes, pos) ==
    [initial |-> from_ne_bytes(bytes, pos),
     offset  |-> from_ne_bytes(bytes, pos + 4),
     weights |-> [i \in 1..BLOCK_LEN |-> from_ne_bytes(bytes, pos + 8 + 4 * (i - 1))]]

LoadRemainder(bytes, pos) ==
    PostingElement0(from_ne_bytes(bytes, pos), from_ne_bytes(bytes, pos + 4))

\* a variant of LoadLast that reads the first id of the decompressed last chunk
LoadLastFirstOfChunk(id_data, chunks, remainders) ==
    IF remainders # <<>>
    THEN LET e == remainders[Len(remainders)]
         IN Some(PostingElement(e.record_id, e.weight, e.weight))
    ELSE IF chunks # <<>>
    THEN LET chunk == chunks[Len(chunks)]
             chunk_size == get_chunk_size(chunks, id_data, Len(chunks) - 1)
             decompressed_chunk ==
                 decompress_strictly_sorted(CheckedSub1(chunk.initial),
                     SubSeq(id_data, chunk.offset + 1, chunk.offset + chunk_size),
                     (chunk_size * 8) \div BLOCK_LEN)
         IN Some(PostingElement(decompressed_chunk[1],
                                chunk.weights[BLOCK_LEN], chunk.weights[BLOCK_LEN]))
    ELSE None

\* the cached last element as load rebuilds it
LoadLast(id_data, chunks, remainders) ==
    IF remainders # <<>>
    THEN LET e == remainders[Len(remainders)]
         IN Some(PostingElement(e.record_id, e.weight, e.weight))
    ELSE IF chunks # <<>>
    THEN LET chunk == chunks[Len(chunks)]
             chunk_size == get_chunk_size(chunks, id_data, Len(chunks) - 1)
             decompressed_chunk ==
                 decompress_strictly_sorted(CheckedSub1(chunk.initial),
                     SubSeq(id_data, chunk.offset + 1, chunk.offset + chunk_size),
                     (chunk_size * 8) \div BLOCK_LEN)
         IN Some(PostingElement(decompressed_chunk[BLOCK_LEN],
                                chunk.weights[BLOCK_LEN], chunk.weights[BLOCK_LEN]))
    ELSE None

\* a variant of Load whose reads take zeroes where the input has run out
LoadZeroFilled(bytes) ==
    LET hdr == bytes \o [j \in 1..12 |-> 0]
        need == 12 + from_ne_bytes(hdr, 0) + from_ne_bytes(hdr, 4) * ChunkBytes
                   + 8 * from_ne_bytes(hdr, 8)
        filled == bytes \o [j \in 1..need |-> 0]
        id_data_len == from_ne_bytes(filled, 0)
        chunks_len == from_ne_bytes(filled, 4)
        remainders_len == from_ne_bytes(filled, 8)
        chunks_at == 12 + id_data_len
        remainders_at == chunks_at + chunks_len * ChunkBytes
        id_data == SubSeq(filled, 13, 12 + id_data_len)
        chunks == [i \in 1..chunks_len |->
                      LoadChunk(filled, chunks_at + (i - 1) * ChunkBytes)]
        remainders == [i \in 1..remainders_len |->
                      LoadRemainder(filled, remainders_at + 8 * (i - 1))]
    IN <<[id_data    |-> id_data,
          chunks     |-> chunks,
          remainders |-> remainders,
          last       |-> LoadLast(id_data, chunks, remainders)]>>

\* PostingList::load: Ok(list) as <<list>>, a failed read_exact as <<>>
Load(bytes) ==
    IF Len(bytes) < 12 THEN <<>>
    ELSE LET id_data_len == from_ne_bytes(bytes, 0)
             chunks_len == from_ne_bytes(bytes, 4)
             remainders_len == from_ne_bytes(bytes, 8)
             chunks_at == 12 + id_data_len
             remainders_at == chunks_at + chunks_len * ChunkBytes
         IN IF Len(bytes) < remainders_at + 8 * remainders_len THEN <<>>
            ELSE LET id_data == SubSeq(bytes, 13, 12 + id_data_len)
                     chunks == [i \in 1..chunks_len |->
                                   LoadChunk(bytes, chunks_at + (i - 1) * ChunkBytes)]
                     remainders == [i \in 1..remainders_len |->
                                   LoadRemainder(bytes, remainders_at + 8 * (i - 1))]
                 IN <<[id_data    |-> id_data,
                       chunks     |-> chunks,
                       remainders |-> remainders,
                       last       |-> LoadLast(id_data, chunks, remainders)]>>

\* load panics while it rebuilds last from the final chunk: with no remainders and
\* the final header's offset past the id bytes, data.len() - offset in get_chunk_size
\* overflows and the slice id_data[offset..offset + chunk_size] is out of range
LoadPanics(bytes) ==
    /\ Len(bytes) >= 12
    /\ from_ne_bytes(bytes, 8) = 0
    /\ from_ne_bytes(bytes, 4) > 0
    /\ LET id_data_len == from_ne_bytes(bytes, 0)
           chunks_len == from_ne_bytes(bytes, 4)
           last_at == 12 + id_data_len + (chunks_len - 1) * ChunkBytes
       IN /\ Len(bytes) >= last_at + ChunkBytes
          /\ from_ne_bytes(bytes, last_at + 4) > id_data_len

\* bytes that are not the save of a list: the saved bytes of a list with the offset
\* field of one chunk header overwritten, by 0 or by a position past the id bytes
OffsetsRewritten(list) ==
    LET b == Save(list)
        field(c) == 12 + Len(list.id_data) + (c - 1) * ChunkBytes + 4
    IN {[j \in 1..Len(b) |->
            IF j > field(c) /\ j <= field(c) + 4 THEN to_ne_bytes(o)[j - field(c)] ELSE b[j]] :
          c \in 1..Len(list.chunks), o \in {0, Len(list.id_data) + 1}}

\* lengths at which a saved list is cut short: nothing, inside the header, inside the
\* id bytes, inside a chunk header, inside a remainder entry, one byte from the end
Cuts(list) ==
    LET total == Len(Save(list))
        chunks_at == 12 + Len(list.id_data)
        remainders_at == chunks_at + Len(list.chunks) * ChunkBytes
    IN {n \in {0, 11, chunks_at - 1, chunks_at + 4, remainders_at + 4, total - 1} :
           n < total}

----------------------------------------------------------------------------
(* PostingListIterator *)

\* PostingList::iter; decompressions is history, the number of decompress_chunk
\* calls the iterator has made
Iter ==
    [decompressed_chunk |-> [i \in 1..BLOCK_LEN |-> 0],
     decompressed_chunk_idx |-> 0,
     decompressed_chunk_start_index |-> USIZE_MAX,
     lalala |-> 0,
     decompressions |-> 0]

\* PostingListIterator::last
IterLast(list) == list.last

\* a variant of len_to_end that counts the start index even when no chunk is decompressed
len_to_end_unguarded(list, i) ==
    LET passed == i.decompressed_chunk_idx * BLOCK_LEN
                  + i.decompressed_chunk_start_index
                  + i.lalala
    IN ListLen(list) - passed

\* PostingListIterator::len_to_end; usize subtraction, negative here means underflow
len_to_end(list, i) ==
    LET passed == i.decompressed_chunk_idx * BLOCK_LEN
                  + (IF i.decompressed_chunk_start_index < BLOCK_LEN
                     THEN i.decompressed_chunk_start_index ELSE 0)
                  + i.lalala
    IN ListLen(list) - passed

\* the element handed to the visitor inside a block
ChunkElement(list, i) ==
    LET chunk == list.chunks[i.decompressed_chunk_idx + 1]
        at == i.decompressed_chunk_start_index + 1
    IN PostingElement(i.decompressed_chunk[at], chunk.weights[at], chunk.weights[at])

Outcome(i, seen, brk) == [it |-> i, seen |-> seen, brk |-> brk]

(* try_for_each with the visitor that returns Continue for the next k elements *)
(* (collecting them in seen) and Break(e) on the one after.  brk is Some(e)    *)
(* for ControlFlow::Break(e) and None for ControlFlow::Continue(()).           *)
RECURSIVE RemainsBackwards(_, _, _, _)
RECURSIVE Remains(_, _, _, _)
RECURSIVE FullBlocks(_, _, _, _)
RECURSIVE BlockLoop(_, _, _, _)
RECURSIVE Resides(_, _, _, _)

\* a variant of Remains that walks the remainders from the back
RemainsBackwards(list, i, k, seen) ==
    IF i.lalala < Len(list.remainders)
    THEN LET r == list.remainders[Len(list.remainders) - i.lalala]
             e == PostingElement(r.record_id, r.weight, r.weight)
         IN IF k = 0 THEN Outcome(i, seen, Some(e))
            ELSE RemainsBackwards(list, [i EXCEPT !.lalala = @ + 1], k - 1,
                                  Append(seen, e))
    ELSE Outcome(i, seen, None)

\* 3. Iterate over remains
Remains(list, i, k, seen) ==
    IF i.lalala < Len(list.remainders)
    THEN LET r == list.remainders[i.lalala + 1]
             e == PostingElement(r.record_id, r.weight, r.weight)
         IN IF k = 0 THEN Outcome(i, seen, Some(e))
            ELSE Remains(list, [i EXCEPT !.lalala = @ + 1], k - 1, Append(seen, e))
    ELSE Outcome(i, seen, None)

\* 2. Iterate over full blocks: decompress the next chunk, then visit it
FullBlocks(list, i, k, seen) ==
    IF i.decompressed_chunk_idx < Len(list.chunks)
    THEN BlockLoop(list,
            [i EXCEPT !.decompressed_chunk = decompress_chunk(list, i.decompressed_chunk_idx),
                      !.decompressed_chunk_start_index = 0,
                      !.decompressions = @ + 1],
            k, seen)
    ELSE Remains(list, i, k, seen)

\* the for loop over the decompressed chunk
BlockLoop(list, i, k, seen) ==
    IF i.decompressed_chunk_start_index < BLOCK_LEN
    THEN IF k = 0 THEN Outcome(i, seen, Some(ChunkElement(list, i)))
         ELSE BlockLoop(list, [i EXCEPT !.decompressed_chunk_start_index = @ + 1],
                        k - 1, Append(seen, ChunkElement(list, i)))
    ELSE FullBlocks(list, [i EXCEPT !.decompressed_chunk_idx = @ + 1], k, seen)

\* a variant of Resides that drops the rest of the chunk an earlier call decompressed
ResidesDropsRest(list, i, k, seen) ==
    FullBlocks(list, [i EXCEPT !.decompressed_chunk_idx = @ + 1], k, seen)

\* 1. Iterate over resides: the rest of the chunk decompressed by an earlier call
Resides(list, i, k, seen) ==
    IF i.decompressed_chunk_start_index < BLOCK_LEN
    THEN IF k = 0 THEN Outcome(i, seen, Some(ChunkElement(list, i)))
         ELSE Resides(list, [i EXCEPT !.decompressed_chunk_start_index = @ + 1],
                      k - 1, Append(seen, ChunkElement(list, i)))
    ELSE FullBlocks(list, [i EXCEPT !.decompressed_chunk_idx = @ + 1], k, seen)

\* a variant of try_for_each that decompresses the chunk again when it resumes inside it
try_for_each_redecoding(list, i, k) ==
    IF i.decompressed_chunk_idx < Len(list.chunks)
    THEN IF i.decompressed_chunk_start_index < BLOCK_LEN
         THEN Resides(list,
                      [i EXCEPT !.decompressed_chunk =
                                     decompress_chunk(list, i.decompressed_chunk_idx),
                                !.decompressions = @ + 1],
                      k, <<>>)
         ELSE FullBlocks(list, i, k, <<>>)
    ELSE Remains(list, i, k, <<>>)

\* PostingListIterator::try_for_each
try_for_each(list, i, k) ==
    IF i.decompressed_chunk_idx < Len(list.chunks)
    THEN IF i.decompressed_chunk_start_index < BLOCK_LEN
         THEN Resides(list, i, k, <<>>)
         ELSE FullBlocks(list, i, k, <<>>)
    ELSE Remains(list, i, k, <<>>)

\* a variant of peek that moves the cursor past the element it returns
peek_advancing(list, i) ==
    LET r == try_for_each(list, i, 1)
    IN [it |-> r.it, val |-> IF r.seen = <<>> THEN None ELSE Some(r.seen[1])]

\* PostingListIterator::peek: the visitor breaks on the first element
peek(list, i) ==
    LET r == try_for_each(list, i, 0)
    IN [it |-> r.it, val |-> r.brk]

\* PostingListIterator::next: the visitor keeps the first element, breaks on the second
next(list, i) ==
    LET r == try_for_each(list, i, 1)
    IN [it |-> r.it, val |-> IF r.seen = <<>> THEN None ELSE Some(r.seen[1])]

\* a variant of the skip_to loop that returns the first element at or past id
RECURSIVE SkipLoopAtOrPast(_, _, _, _)
SkipLoopAtOrPast(list, i, id, n) ==
    LET p == peek(list, i)
    IN IF p.val = None THEN [it |-> p.it, val |-> None, n |-> n]
       ELSE IF p.val[1].record_id >= id THEN [it |-> p.it, val |-> p.val, n |-> n]
       ELSE SkipLoopAtOrPast(list, next(list, p.it).it, id, n + 1)

\* a variant of the skip_to loop that consumes the element it matches
RECURSIVE SkipLoopTakesMatch(_, _, _, _)
SkipLoopTakesMatch(list, i, id, n) ==
    LET p == peek(list, i)
    IN IF p.val = None THEN [it |-> p.it, val |-> None, n |-> n]
       ELSE IF p.val[1].record_id = id
            THEN [it |-> next(list, p.it).it, val |-> p.val, n |-> n + 1]
       ELSE IF p.val[1].record_id > id THEN [it |-> p.it, val |-> None, n |-> n]
       ELSE SkipLoopTakesMatch(list, next(list, p.it).it, id, n + 1)

\* a variant of the skip_to loop that consumes the greater element it stops at
RECURSIVE SkipLoopTakesGreater(_, _, _, _)
SkipLoopTakesGreater(list, i, id, n) ==
    LET p == peek(list, i)
    IN IF p.val = None THEN [it |-> p.it, val |-> None, n |-> n]
       ELSE IF p.val[1].record_id = id THEN [it |-> p.it, val |-> p.val, n |-> n]
       ELSE IF p.val[1].record_id > id
            THEN [it |-> next(list, p.it).it, val |-> None, n |-> n + 1]
       ELSE SkipLoopTakesGreater(list, next(list, p.it).it, id, n + 1)

\* PostingListIterator::skip_to; n counts the elements passed by its next() calls
RECURSIVE SkipLoop(_, _, _, _)
SkipLoop(list, i, id, n) ==
    LET p == peek(list, i)
    IN IF p.val = None THEN [it |-> p.it, val |-> None, n |-> n]
       ELSE IF p.val[1].record_id = id THEN [it |-> p.it, val |-> p.val, n |-> n]
       ELSE IF p.val[1].record_id > id THEN [it |-> p.it, val |-> None, n |-> n]
       ELSE SkipLoop(list, next(list, p.it).it, id, n + 1)

skip_to(list, i, id) == SkipLoop(list, i, id, 0)

\* the elements the n next() calls of one skip_to hand out, one after the other
Passed(list, i, n) == try_for_each(list, i, n).seen

\* PostingListIterator::skip_to_end
skip_to_end(list, i) ==
    [i EXCEPT !.decompressed_chunk_idx = Len(list.chunks) + Len(list.remainders)]

\* impl Iterator: collect() calls next() until it returns None
RECURSIVE Collect(_, _, _)
Collect(list, i, acc) ==
    LET r == next(list, i)
    IN IF r.val = None THEN acc ELSE Collect(list, r.it, Append(acc, r.val[1]))

\* PostingList::to_vec
to_vec(list) == Collect(list, Iter, <<>>)

----------------------------------------------------------------------------
(* Inputs of the model *)

\* (id, weight) entries carry a weight fixed by the id, so that neighbours differ
WeightOf(id) == (id % 4) + 1

Entry(id) == PostingElement0(id, WeightOf(id))

\* ids of a first element
Starts == {0, 1}

\* gaps to the next id after n elements: free at the second place of every block
Gaps(n) == IF n % BLOCK_LEN = 1 THEN {1, 3} ELSE {1}

\* max_next_weight of an upserted element of weight w after n elements: the weight,
\* or more for an element that opens or closes a block
MaxNextWeights(n, w) ==
    IF n % BLOCK_LEN \in {0, BLOCK_LEN - 1} THEN {w, w + 1} ELSE {w}

\* the ids an appending upsert may carry after the entries t
NextIds(t) ==
    IF t = <<>> THEN Starts
    ELSE {t[Len(t)].record_id + g : g \in Gaps(Len(t))}

\* the sorted entry sequences of at most n elements that appending upserts can make
RECURSIVE Family(_)
Family(n) ==
    IF n = 0 THEN {<<>>}
    ELSE LET shorter == Family(n - 1)
         IN shorter \cup UNION {{Append(t, Entry(id)) : id \in NextIds(t)} :
                                   t \in {u \in shorter : Len(u) = n - 1}}

RECURSIVE GCD(_, _)
GCD(a, b) == IF b = 0 THEN a ELSE GCD(b, a % b)

\* Insertion orders: entry i of the order is entry ((i-1)*stride + rot) mod n of t
MaxStride == 3

MaxRot == 1

Strides(n) == {s \in 1..n : GCD(s, n) = 1 /\ (s <= MaxStride \/ s = n - 1)}

Reorder(t, stride, rot) ==
    [i \in 1..Len(t) |-> t[(((i - 1) * stride + rot) % Len(t)) + 1]]

Orders(t) ==
    IF t = <<>> THEN {<<>>}
    ELSE {Reorder(t, s, r) : s \in Strides(Len(t)), r \in 0..(IF Len(t) - 1 < MaxRot
                                                            THEN Len(t) - 1 ELSE MaxRot)}

Records(t) == [i \in 1..Len(t) |-> <<t[i].record_id, t[i].weight>>]

\* largest id of the model's lists, and the ids asked of skip_to
MaxId == 1 + (MaxLen - 1) + 2 * (MaxLen \div BLOCK_LEN + 1)

QueryStep == 4

Queries == {q \in 0..(MaxId + 1) : q % QueryStep = 0}

\* records with one id given twice: a list of at most MaxDup entries and, before or
\* after it, a second record for one of its ids with another weight
MaxDup == 2

DupRecords ==
    UNION {UNION {{Append(Records(t), <<t[k].record_id, t[k].weight + 1>>),
                   <<<<t[k].record_id, t[k].weight + 1>>>> \o Records(t)} :
                     k \in 1..Len(t)} :
              t \in Family(MaxDup) \ {<<>>}}

Reverse(s) == [i \in 1..Len(s) |-> s[Len(s) + 1 - i]]

\* sort_unstable_by_key may leave entries of one id in either order
UnstableOrders(records) ==
    LET added == [i \in 1..Len(records) |-> PostingElement0(records[i][1], records[i][2])]
    IN {SortByKey(added), SortByKey(Reverse(added))}

\* the visitor of try_for_each breaks after k elements
Breaks == {0, 1, BLOCK_LEN, MaxLen}

----------------------------------------------------------------------------
(* The program: one list, at most one iterator borrowing it *)

\* DynamicMmapFlags::get: the flag of the key, false past the length of the flags
get(flags, key) == key < Len(flags) /\ flags[key + 1]

\* DynamicMmapFlags::set_len: new flags are false
set_len(flags, len) == [i \in 1..len |-> i <= Len(flags) /\ flags[i]]

\* DynamicMmapFlags::set: sets the flag of the key and returns the flag it had
set(flags, key, value) ==
    [flags |-> [flags EXCEPT ![key + 1] = value], previous |-> flags[key + 1]]

\* the number of keys below num_vectors whose deleted flag is set
RECURSIVE CountDeleted(_, _)
CountDeleted(deleted, num_vectors) ==
    IF num_vectors = 0 THEN 0
    ELSE CountDeleted(deleted, num_vectors - 1)
            + (IF get(deleted, num_vectors - 1) THEN 1 ELSE 0)

\* open_appendable_memmap_multi_vector_storage_impl over the vectors and the flags
\* found under the path
open(vectors, deleted) ==
    [vectors |-> vectors,
     deleted |-> deleted,
     deleted_count |-> CountDeleted(deleted, Len(vectors))]

\* Dashboard::default(): no issue is active
Dashboard == [c \in {} |-> None]

Init ==
    /\ pl = EmptyList
    /\ it = None
    /\ elems = <<>>
    /\ consumed = 0
    /\ ended = FALSE
    /\ yielded = None
    /\ res = [op |-> "default"]
    /\ issues = Dashboard
    /\ threads = <<>>
    /\ storage = open(<<>>, <<>>)

\* let pl = PostingList::from(records)
DoFrom ==
    /\ res.op = "default"
    /\ \E t \in Family(MaxLen) : \E s \in Orders(t) :
          /\ pl' = From(Records(s))
          /\ elems' = t
          /\ res' = [op |-> "from", arg |-> Records(s)]
    /\ UNCHANGED <<storage, threads, issues, it, consumed, ended, yielded>>

\* pl.upsert(element) with an id past the last one
DoUpsert ==
    /\ it = None
    /\ Len(elems) < MaxLen
    /\ \E id \in NextIds(elems) : \E m \in MaxNextWeights(Len(elems), WeightOf(id)) :
          \E element \in {PostingElement(id, WeightOf(id), m)} :
          \E r \in {Upsert(pl, element)} :
             /\ pl' = r.list
             /\ elems' = IF r.unimplemented THEN elems ELSE Append(elems, Entry(id))
             /\ res' = [op |-> "upsert", ok |-> ~r.unimplemented, arg |-> element]
    /\ UNCHANGED <<storage, threads, issues, it, consumed, ended, yielded>>

\* pl.upsert(element) with the id of the last element or the one before it
DoUpsertOutOfOrder ==
    /\ it = None
    /\ elems # <<>>
    /\ \E id \in {x \in 0..elems[Len(elems)].record_id :
                     x >= elems[Len(elems)].record_id - 1} :
          \E element \in {PostingElement(id, WeightOf(id), WeightOf(id))} :
          \E r \in {Upsert(pl, element)} :
             /\ pl' = r.list
             /\ elems' = IF r.unimplemented THEN elems ELSE Append(elems, Entry(id))
             /\ res' = [op |-> "upsert", ok |-> ~r.unimplemented, arg |-> element]
    /\ UNCHANGED <<storage, threads, issues, it, consumed, ended, yielded>>

\* pl.save(&mut buf); pl = PostingList::load(&mut Cursor::new(buf))
DoSaveLoad ==
    /\ it = None
    /\ \E buf \in {Save(pl)} : \E loaded \in {Load(buf)} :
          IF loaded = <<>>
          THEN /\ pl' = pl
               /\ res' = [op |-> "load", ok |-> FALSE, bytes |-> buf]
          ELSE /\ pl' = loaded[1]
               /\ res' = [op |-> "load", ok |-> TRUE, bytes |-> buf]
    /\ UNCHANGED <<storage, threads, issues, it, elems, consumed, ended, yielded>>

\* pl.save(&mut buf); PostingList::load(&mut Cursor::new(&buf[..n])) for a cut n
DoLoadPrefix ==
    /\ it = None
    /\ \E buf \in {Save(pl)} : \E n \in Cuts(pl) : \E loaded \in {Load(SubSeq(buf, 1, n))} :
             IF loaded = <<>>
             THEN /\ pl' = pl
                  /\ res' = [op |-> "load_prefix", arg |-> n, ok |-> FALSE]
             ELSE /\ pl' = loaded[1]
                  /\ res' = [op |-> "load_prefix", arg |-> n, ok |-> TRUE]
    /\ UNCHANGED <<storage, threads, issues, it, elems, consumed, ended, yielded>>

\* pl.to_vec()
DoToVec ==
    /\ it = None
    /\ res' = [op |-> "to_vec", val |-> to_vec(pl)]
    /\ UNCHANGED <<storage, threads, issues, pl, it, elems, consumed, ended, yielded>>

\* let mut iter = pl.iter()
DoIter ==
    /\ it = None
    /\ it' = Some(Iter)
    /\ consumed' = 0
    /\ ended' = FALSE
    /\ yielded' = None
    /\ res' = [op |-> "iter"]
    /\ UNCHANGED <<storage, threads, issues, pl, elems>>

\* the iterator goes out of scope
DoDrop ==
    /\ it # None
    /\ it' = None
    /\ consumed' = 0
    /\ ended' = FALSE
    /\ yielded' = None
    /\ res' = [op |-> "drop"]
    /\ UNCHANGED <<storage, threads, issues, pl, elems>>

\* iter.peek()
DoPeek ==
    /\ it # None
    /\ \E r \in {peek(pl, it[1])} :
          /\ it' = Some(r.it)
          /\ res' = [op |-> "peek", val |-> r.val]
    /\ UNCHANGED <<storage, threads, issues, pl, elems, consumed, ended, yielded>>

\* iter.next()
DoNext ==
    /\ it # None
    /\ \E r \in {next(pl, it[1])} :
          /\ it' = Some(r.it)
          /\ res' = [op |-> "next", val |-> r.val]
          /\ consumed' = consumed + (IF r.val = None THEN 0 ELSE 1)
          /\ yielded' = IF r.val = None THEN yielded ELSE Some(r.val[1].record_id)
    /\ UNCHANGED <<storage, threads, issues, pl, elems, ended>>

\* iter.skip_to(q); the model follows an iterator after skip_to_end through
\* peek and next only
DoSkipTo ==
    /\ it # None
    /\ ~ended
    /\ \E q \in Queries :
          \E r \in {skip_to(pl, it[1], q)} :
             /\ it' = Some(r.it)
             /\ res' = [op |-> "skip_to", arg |-> q, val |-> r.val,
                        fresh |-> (res.op = "iter"),
                        decompressed |-> r.it.decompressions - it[1].decompressions]
             /\ consumed' = consumed + r.n
             /\ yielded' = IF r.n = 0 THEN yielded
                           ELSE Some(Passed(pl, it[1], r.n)[r.n].record_id)
    /\ UNCHANGED <<storage, threads, issues, pl, elems, ended>>

\* iter.skip_to_end()
DoSkipToEnd ==
    /\ it # None
    /\ ~ended
    /\ it' = Some(skip_to_end(pl, it[1]))
    /\ ended' = TRUE
    /\ res' = [op |-> "skip_to_end"]
    /\ UNCHANGED <<storage, threads, issues, pl, elems, consumed, yielded>>

\* iter.try_for_each(visitor), the visitor breaking after k elements
DoTryForEach ==
    /\ it # None
    /\ ~ended
    /\ \E k \in Breaks :
          \E r \in {try_for_each(pl, it[1], k)} :
             /\ it' = Some(r.it)
             /\ res' = [op |-> "try_for_each", arg |-> k, seen |-> r.seen,
                        brk |-> r.brk]
             /\ consumed' = consumed + Len(r.seen)
             /\ yielded' = IF r.seen = <<>> THEN yielded
                           ELSE Some(r.seen[Len(r.seen)].record_id)
    /\ UNCHANGED <<storage, threads, issues, pl, elems, ended>>

Next ==
    \/ DoFrom
    \/ DoUpsert
    \/ DoUpsertOutOfOrder
    \/ DoSaveLoad
    \/ DoLoadPrefix
    \/ DoToVec
    \/ DoIter
    \/ DoDrop
    \/ DoPeek
    \/ DoNext
    \/ DoSkipTo
    \/ DoSkipToEnd
    \/ DoTryForEach

Spec == Init /\ [][Next]_vars

\* iter.try_for_each(visitor) on an iterator that skip_to_end() was called on
DoTryForEachEnded ==
    /\ it # None
    /\ ended
    /\ \E k \in Breaks :
          \E r \in {try_for_each(pl, it[1], k)} :
             /\ it' = Some(r.it)
             /\ res' = [op |-> "try_for_each", arg |-> k, seen |-> r.seen,
                        brk |-> r.brk]
             /\ consumed' = consumed + Len(r.seen)
             /\ yielded' = IF r.seen = <<>> THEN yielded
                           ELSE Some(r.seen[Len(r.seen)].record_id)
    /\ UNCHANGED <<storage, threads, issues, pl, elems, ended>>

NextEnded ==
    \/ Next
    \/ DoTryForEachEnded

\* the program with try_for_each followed after skip_to_end() too
SpecEnded == Init /\ [][NextEnded]_vars

\* PostingList::load(&mut Cursor::new(bytes)) for bytes no save has written; the
\* outcome is kept in res and pl is left alone
DoLoadRewritten ==
    /\ it = None
    /\ \E bytes \in OffsetsRewritten(pl) :
          IF LoadPanics(bytes)
          THEN res' = [op |-> "load_bytes", outcome |-> "panic", val |-> None]
          ELSE \E loaded \in {Load(bytes)} :
                  res' = [op |-> "load_bytes",
                          outcome |-> IF loaded = <<>> THEN "err" ELSE "ok",
                          val |-> loaded]
    /\ UNCHANGED <<storage, threads, issues, pl, it, elems, consumed, ended, yielded>>

NextRewritten ==
    \/ Next
    \/ DoLoadRewritten

\* the program with load also given bytes that no save has written
SpecRewritten == Init /\ [][NextRewritten]_vars

\* let pl = PostingList::from(records) with an id given twice, built without
\* debug_assertions: the duplicate check is compiled out
DoFromDuplicates ==
    /\ res.op = "default"
    /\ \E records \in DupRecords : \E elements \in UnstableOrders(records) :
          /\ pl' = Build(elements)
          /\ elems' = elements
          /\ res' = [op |-> "from", arg |-> records]
    /\ UNCHANGED <<storage, threads, issues, it, consumed, ended, yielded>>

\* the list built from the duplicates is read, not appended to: a block that holds
\* an id twice has a delta that wraps around in the codec
NextRelease ==
    \/ DoFromDuplicates
    \/ DoSaveLoad
    \/ DoToVec
    \/ DoIter
    \/ DoDrop
    \/ DoPeek
    \/ DoNext
    \/ DoTryForEach

\* the program built without debug_assertions, given records that repeat an id
SpecRelease == Init /\ [][NextRelease]_vars

----------------------------------------------------------------------------
(* Two iterators borrowing one list: let mut a = pl.iter(); let mut b = pl.iter() *)

\* the lists the two iterators share: the longest ones with the widest gaps
SharedLists ==
    {t \in Family(MaxLen) :
        /\ Len(t) = MaxLen
        /\ \A u \in Family(MaxLen) :
              Len(u) = MaxLen => u[MaxLen].record_id <= t[MaxLen].record_id}

\* a variant of Borrowed in which the iterators decompress into one shared buffer
BorrowedSharedScratch(its, j, i) ==
    [k \in 1..Len(its) |->
        IF k = j THEN i
        ELSE [its[k] EXCEPT !.decompressed_chunk = i.decompressed_chunk]]

\* a call on iterator j (&mut self) leaves it in state i: every iterator owns its
\* cursor and its decompressed chunk
Borrowed(its, j, i) == [its EXCEPT ![j] = i]

\* let pl = PostingList::from(records); let mut a = pl.iter(); let mut b = pl.iter()
DoSharedIter ==
    /\ res.op = "default"
    /\ \E t \in SharedLists :
          /\ pl' = From(Records(t))
          /\ elems' = t
    /\ it' = <<Iter, Iter>>
    /\ consumed' = <<0, 0>>
    /\ res' = [op |-> "iter"]
    /\ UNCHANGED <<storage, threads, issues, ended, yielded>>

\* a.peek() or b.peek()
DoSharedPeek ==
    /\ Len(it) = 2
    /\ \E j \in 1..2 : \E r \in {peek(pl, it[j])} :
          /\ it' = Borrowed(it, j, r.it)
          /\ res' = [op |-> "peek", iter |-> j, val |-> r.val]
    /\ UNCHANGED <<storage, threads, issues, pl, elems, consumed, ended, yielded>>

\* a.next() or b.next()
DoSharedNext ==
    /\ Len(it) = 2
    /\ \E j \in 1..2 : \E r \in {next(pl, it[j])} :
          /\ it' = Borrowed(it, j, r.it)
          /\ res' = [op |-> "next", iter |-> j, val |-> r.val]
          /\ consumed' = [consumed EXCEPT ![j] = @ + (IF r.val = None THEN 0 ELSE 1)]
    /\ UNCHANGED <<storage, threads, issues, pl, elems, ended, yielded>>

\* a.skip_to(q) or b.skip_to(q)
DoSharedSkipTo ==
    /\ Len(it) = 2
    /\ \E j \in 1..2 : \E q \in Queries : \E r \in {skip_to(pl, it[j], q)} :
          /\ it' = Borrowed(it, j, r.it)
          /\ res' = [op |-> "skip_to", iter |-> j, arg |-> q, val |-> r.val]
          /\ consumed' = [consumed EXCEPT ![j] = @ + r.n]
    /\ UNCHANGED <<storage, threads, issues, pl, elems, ended, yielded>>

\* a.try_for_each(visitor) or b.try_for_each(visitor), the visitor breaking after k
DoSharedTryForEach ==
    /\ Len(it) = 2
    /\ \E j \in 1..2 : \E k \in Breaks : \E r \in {try_for_each(pl, it[j], k)} :
          /\ it' = Borrowed(it, j, r.it)
          /\ res' = [op |-> "try_for_each", iter |-> j, arg |-> k, seen |-> r.seen,
                     brk |-> r.brk]
          /\ consumed' = [consumed EXCEPT ![j] = @ + Len(r.seen)]
    /\ UNCHANGED <<storage, threads, issues, pl, elems, ended, yielded>>

NextShared ==
    \/ DoSharedIter
    \/ DoSharedPeek
    \/ DoSharedNext
    \/ DoSharedSkipTo
    \/ DoSharedTryForEach

SpecShared == Init /\ [][NextShared]_vars

----------------------------------------------------------------------------
(* The dashboard of active issues (dashboard.rs), its calls made one after  *)
(* the other                                                                 *)

\* TypeId::of::<I>() of the issue types
IssueTypes == {"DummyIssue", "OtherIssue"}

\* the strings that tell the issues of one type apart
Distinctives == {"my_collection:issue1", "my_other_collection:issue2", "issue2"}

\* Code::new::<T>(distinctive)
Code(T, distinctive) == [issue_type |-> T, distinctive |-> distinctive]

Codes == {Code(T, d) : T \in IssueTypes, d \in Distinctives}

\* the issues submitted: an issue of type T made with a distinctive string
Issues == [issue_type : IssueTypes, distinctive : Distinctives]

\* issue.code()
code(issue) == Code(issue.issue_type, issue.distinctive)

\* IssueRecord::from(issue)
IssueRecord(issue) == [issue |-> issue]

\* DashMap::contains_key
contains_key(map, k) == k \in DOMAIN map

\* a variant of insert that does not return the value it replaces
insert_blind(map, k, v) ==
    [map |-> [c \in DOMAIN map \cup {k} |-> IF c = k THEN v ELSE map[c]],
     old |-> None]

\* DashMap::insert: puts the value under the key and returns the value it replaces
insert(map, k, v) ==
    [map |-> [c \in DOMAIN map \cup {k} |-> IF c = k THEN v ELSE map[c]],
     old |-> IF k \in DOMAIN map THEN Some(map[k]) ELSE None]

\* DashMap::remove: takes the entry of the key out and returns it
remove(map, k) ==
    [map |-> [c \in DOMAIN map \ {k} |-> map[c]],
     old |-> IF k \in DOMAIN map THEN Some(<<k, map[k]>>) ELSE None]

\* a variant of add_issue that inserts without looking for the code first
add_issue_unguarded(map, issue) ==
    LET r == insert(map, code(issue), IssueRecord(issue))
    IN [issues |-> r.map, val |-> TRUE]

\* Dashboard::add_issue
add_issue(map, issue) ==
    IF contains_key(map, code(issue))
    THEN [issues |-> map, val |-> FALSE]
    ELSE LET r == insert(map, code(issue), IssueRecord(issue))
         IN [issues |-> r.map, val |-> r.old = None]

\* Dashboard::remove_issue
remove_issue(map, c) ==
    IF contains_key(map, c)
    THEN LET r == remove(map, c)
         IN [issues |-> r.map, val |-> r.old # None]
    ELSE [issues |-> map, val |-> FALSE]

\* a variant of get_codes that does not filter by issue type
get_codes_of_any_type(map, I) == DOMAIN map

\* Dashboard::get_codes::<I>
get_codes(map, I) == {c \in DOMAIN map : c.issue_type = I}

\* the orders in which a HashSet may be iterated
Iterations(S) ==
    {s \in [1..Cardinality(S) -> S] : \A i, j \in 1..Cardinality(S) : s[i] = s[j] => i = j}

\* the predicates given to solve_by_filter, each as the set of codes it accepts
Filters == SUBSET Codes

RECURSIVE SolveLoop(_, _, _)
\* for code in codes { if filter(&code) { solve(code); } }
SolveLoop(map, codes, filter) ==
    IF codes = <<>> THEN map
    ELSE SolveLoop(IF Head(codes) \in filter THEN remove_issue(map, Head(codes)).issues
                   ELSE map,
                   Tail(codes), filter)

\* submit(issue)
DoSubmit ==
    /\ \E issue \in Issues : \E r \in {add_issue(issues, issue)} :
          /\ issues' = r.issues
          /\ res' = [op |-> "submit", arg |-> code(issue), val |-> r.val]
    /\ UNCHANGED <<storage, threads, pl, it, elems, consumed, ended, yielded>>

\* solve(code)
DoSolve ==
    /\ \E c \in Codes : \E r \in {remove_issue(issues, c)} :
          /\ issues' = r.issues
          /\ res' = [op |-> "solve", arg |-> c, val |-> r.val]
    /\ UNCHANGED <<storage, threads, pl, it, elems, consumed, ended, yielded>>

\* clear()
DoClear ==
    /\ issues' = Dashboard
    /\ res' = [op |-> "clear"]
    /\ UNCHANGED <<storage, threads, pl, it, elems, consumed, ended, yielded>>

\* solve_by_filter::<I, _>(filter)
DoSolveByFilter ==
    /\ \E I \in IssueTypes : \E filter \in Filters :
       \E codes \in Iterations(get_codes(issues, I)) :
          /\ issues' = SolveLoop(issues, codes, filter)
          /\ res' = [op |-> "solve_by_filter", type |-> I, filter |-> filter,
                     codes |-> {codes[i] : i \in DOMAIN codes}]
    /\ UNCHANGED <<storage, threads, pl, it, elems, consumed, ended, yielded>>

NextDashboard ==
    \/ DoSubmit
    \/ DoSolve
    \/ DoClear
    \/ DoSolveByFilter

SpecDashboard == Init /\ [][NextDashboard]_vars

----------------------------------------------------------------------------
(* Threads sharing the dashboard: every DashMap call is atomic, a thread may *)
(* be overtaken between the contains_key and the insert or remove of a call  *)

\* the threads spawned
NumThreads == 2

Threads == 1..NumThreads

\* the codes the threads compete for: DummyIssue::new("issue1"), ("issue2")
RacedCodes == {Code("DummyIssue", d) : d \in {"issue1", "issue2"}}

\* a call about to start: submit(issue) or solve(code), told apart by op; ret is
\* history, the statement the call returned from
ThreadCalls == [op : {"submit", "solve"}, code : RacedCodes, pc : {"contains_key"},
                val : {None}, ret : {None}]

\* the dashboard with the issues of the codes S active
ActiveOnly(S) ==
    [c \in S |-> IssueRecord([issue_type |-> c.issue_type, distinctive |-> c.distinctive])]

\* the spawning thread has submitted some issues, kept in res; every thread starts
\* one call
DoSpawn ==
    /\ res.op = "default"
    /\ \E S \in SUBSET RacedCodes : \E calls \in [Threads -> ThreadCalls] :
          /\ issues' = ActiveOnly(S)
          /\ threads' = calls
          /\ res' = [op |-> "spawn", active |-> S]
    /\ UNCHANGED <<storage, pl, it, elems, consumed, ended, yielded>>

\* if self.issues.contains_key(&code): add_issue returns false when it finds the
\* key, remove_issue when it does not
DoContainsKey ==
    /\ \E t \in DOMAIN threads :
          /\ threads[t].pc = "contains_key"
          /\ threads' = [threads EXCEPT ![t] =
                IF contains_key(issues, threads[t].code) = (threads[t].op = "submit")
                THEN [@ EXCEPT !.pc = "done", !.val = Some(FALSE),
                               !.ret = Some("contains_key")]
                ELSE [@ EXCEPT !.pc = IF threads[t].op = "submit" THEN "insert"
                                      ELSE "remove"]]
    /\ UNCHANGED <<storage, issues, pl, it, elems, consumed, ended, yielded, res>>

\* self.issues.insert(code, issue).is_none()
DoInsert ==
    /\ \E t \in DOMAIN threads :
          /\ threads[t].pc = "insert"
          /\ \E r \in {insert(issues, threads[t].code,
                              IssueRecord([issue_type |-> threads[t].code.issue_type,
                                           distinctive |-> threads[t].code.distinctive]))} :
                /\ issues' = r.map
                /\ threads' = [threads EXCEPT ![t] =
                                  [@ EXCEPT !.pc = "done", !.val = Some(r.old = None),
                                            !.ret = Some("insert")]]
    /\ UNCHANGED <<storage, pl, it, elems, consumed, ended, yielded, res>>

\* return self.issues.remove(code.as_ref()).is_some()
DoRemove ==
    /\ \E t \in DOMAIN threads :
          /\ threads[t].pc = "remove"
          /\ \E r \in {remove(issues, threads[t].code)} :
                /\ issues' = r.map
                /\ threads' = [threads EXCEPT ![t] =
                                  [@ EXCEPT !.pc = "done", !.val = Some(r.old # None),
                                            !.ret = Some("remove")]]
    /\ UNCHANGED <<storage, pl, it, elems, consumed, ended, yielded, res>>

NextThreads ==
    \/ DoSpawn
    \/ DoContainsKey
    \/ DoInsert
    \/ DoRemove

SpecThreads == Init /\ [][NextThreads]_vars

----------------------------------------------------------------------------
(* The appendable multi-vector storage                                       *)
(* (appendable_mmap_multi_dense_vector_storage.rs) and its deleted flags     *)

\* the most vectors the storage holds in the model
MaxVectors == 3

\* the keys given to insert_vector and delete_vector, some at or past the count
Keys == 0..MaxVectors

\* a stored vector; "zero" fills the keys that an insert past the end skips
Vectors == {"v"}

\* a variant of set_deleted that does not look at the number of vectors
set_deleted_unchecked(s, key, deleted) ==
    LET sized == IF Len(s.deleted) <= key THEN set_len(s.deleted, key + 1) ELSE s.deleted
        r == set(sized, key, deleted)
    IN [storage |-> [s EXCEPT !.deleted = r.flags,
                              !.deleted_count =
                                  IF ~r.previous /\ deleted THEN @ + 1
                                  ELSE IF r.previous /\ ~deleted THEN @ - 1
                                  ELSE @],
        val |-> r.previous]

\* AppendableMmapMultiDenseVectorStorage::set_deleted
set_deleted(s, key, deleted) ==
    IF Len(s.vectors) <= key THEN [storage |-> s, val |-> FALSE]
    ELSE LET sized == IF Len(s.deleted) <= key THEN set_len(s.deleted, key + 1)
                      ELSE s.deleted
             r == set(sized, key, deleted)
         IN [storage |-> [s EXCEPT !.deleted = r.flags,
                                   !.deleted_count =
                                       IF ~r.previous /\ deleted THEN @ + 1
                                       ELSE IF r.previous /\ ~deleted THEN @ - 1
                                       ELSE @],
             val |-> r.previous]

\* ChunkedMmapVectors::insert: the vector takes the place of the key, the storage
\* growing to hold it
vectors_insert(vectors, key, vector) ==
    [i \in 1..Max(Len(vectors), key + 1) |->
        IF i = key + 1 THEN vector ELSE IF i <= Len(vectors) THEN vectors[i] ELSE "zero"]

\* insert_vector
insert_vector(s, key, vector) ==
    set_deleted([s EXCEPT !.vectors = vectors_insert(s.vectors, key, vector)],
                key, FALSE).storage

\* delete_vector
delete_vector(s, key) == set_deleted(s, key, TRUE)

\* the storages update_from copies from: their vectors and deleted flags
Others ==
    {[vectors |-> <<"v", "v">>, deleted |-> d] :
        d \in {<<>>, <<TRUE>>, <<FALSE, TRUE>>, <<TRUE, TRUE>>}}

\* the loop of update_from: push the vector of every id, with its deleted flag
RECURSIVE update_from(_, _, _)
update_from(s, other, other_ids) ==
    IF other_ids = <<>> THEN s
    ELSE LET point_id == Head(other_ids)
             new_id == Len(s.vectors)
             pushed == [s EXCEPT !.vectors = Append(@, other.vectors[point_id + 1])]
         IN update_from(set_deleted(pushed, new_id, get(other.deleted, point_id)).storage,
                        other, Tail(other_ids))

\* the ids handed to update_from
OtherIds == {<<0>>, <<1>>, <<0, 1>>, <<1, 0>>}

\* the storage is dropped and opened again from its path
DoOpen ==
    /\ storage' = open(storage.vectors, storage.deleted)
    /\ res' = [op |-> "open"]
    /\ UNCHANGED <<pl, it, elems, consumed, ended, yielded, issues, threads>>

\* storage.insert_vector(key, vector)
DoInsertVector ==
    /\ \E key \in Keys : \E vector \in Vectors :
          /\ key < MaxVectors
          /\ storage' = insert_vector(storage, key, vector)
          /\ res' = [op |-> "insert_vector", key |-> key]
    /\ UNCHANGED <<pl, it, elems, consumed, ended, yielded, issues, threads>>

\* storage.delete_vector(key)
DoDeleteVector ==
    /\ \E key \in Keys : \E r \in {delete_vector(storage, key)} :
          /\ storage' = r.storage
          /\ res' = [op |-> "delete_vector", key |-> key, val |-> r.val]
    /\ UNCHANGED <<pl, it, elems, consumed, ended, yielded, issues, threads>>

\* storage.update_from(other, other_ids, stopped); stopped set after n ids makes
\* check_process_stopped end the loop there
DoUpdateFrom ==
    /\ \E other \in Others : \E other_ids \in OtherIds : \E n \in 0..Len(other_ids) :
          /\ Len(storage.vectors) + n <= MaxVectors
          /\ storage' = update_from(storage, other, SubSeq(other_ids, 1, n))
          /\ res' = [op |-> "update_from", ok |-> n = Len(other_ids),
                     start_index |-> Len(storage.vectors)]
    /\ UNCHANGED <<pl, it, elems, consumed, ended, yielded, issues, threads>>

NextStorage ==
    \/ DoOpen
    \/ DoInsertVector
    \/ DoDeleteVector
    \/ DoUpdateFrom

SpecStorage == Init /\ [][NextStorage]_vars

----------------------------------------------------------------------------
(* Properties *)

\* the (id, weight) pairs of yielded elements, max_next_weight ignored
Pairs(v) == [i \in 1..Len(v) |-> PostingElement0(v[i].record_id, v[i].weight)]

HasId(q) == \E i \in 1..Len(elems) : elems[i].record_id = q

\* C1: right after PostingList::from(S), S in any of the insertion orders, collecting
\* a fresh iterator with next() yields the entries of S in ascending id order, each
\* id with its own weight.
C1_FromIteratesSorted ==
    res.op = "from" => Pairs(to_vec(pl)) = elems

C1_Witness ==
    /\ res.op = "from"
    /\ res.arg # Records(elems)
    /\ Len(pl.chunks) = 2
    /\ pl.remainders # <<>>
    /\ Pairs(to_vec(pl)) = elems

\* C2: after every accepted upsert, collecting a fresh iterator yields exactly the
\* entries appended so far, in the order of their appending.
C2_UpsertIteratesAppended ==
    (res.op = "upsert" /\ res.ok) => Pairs(to_vec(pl)) = elems

C2_Witness ==
    /\ res.op = "upsert"
    /\ res.ok
    /\ Len(pl.chunks) = 2
    /\ Len(pl.remainders) = 1
    /\ pl.id_data # <<>>
    /\ Pairs(to_vec(pl)) = elems

\* C3: load(save(L)) succeeds and returns a list equal to L in id_data, chunks,
\* remainders and the cached last element, max_next_weight included.
C3_LoadSaveIdentity ==
    [][res'.op = "load" => (res'.ok /\ pl' = pl)]_vars

\* C4: skip_to(q) on a fresh iterator returns Some(e) with e.id = q iff q is an id of
\* the list; when it returns None the next peek() returns the element with the
\* smallest id greater than q, or None when there is none.
C4_SkipToFresh ==
    (res.op = "skip_to" /\ res.fresh) =>
        LET q == res.arg
            later == {i \in 1..Len(elems) : elems[i].record_id > q}
            p == peek(pl, it[1]).val
        IN /\ (res.val # None) <=> HasId(q)
           /\ res.val # None => res.val[1].record_id = q
           /\ res.val = None =>
                 IF later = {} THEN p = None
                 ELSE LET j == CHOOSE i \in later : \A h \in later : i <= h
                      IN p # None /\ Pairs(p) = <<elems[j]>>

C4_Witness ==
    /\ res.op = "skip_to"
    /\ res.fresh
    /\ res.val = None
    /\ ~HasId(res.arg)
    /\ Len(pl.chunks) = 2
    /\ \E i \in 1..Len(elems) : elems[i].record_id > res.arg
    /\ consumed > BLOCK_LEN

\* C5: on an iterator driven by next, peek, skip_to and try_for_each, len_to_end()
\* is list.len() minus the number of elements consumed so far.
C5_LenToEnd ==
    (it # None /\ ~ended) => len_to_end(pl, it[1]) = ListLen(pl) - consumed

C5_Witness ==
    /\ it # None
    /\ ~ended
    /\ res.op = "try_for_each"
    /\ res.brk # None
    /\ consumed = BLOCK_LEN
    /\ Len(elems) > BLOCK_LEN
    /\ len_to_end(pl, it[1]) = Len(elems) - BLOCK_LEN

\* C6: L.len() is BLOCK_LEN * #chunks + #remainders, the number of elements a fresh
\* iterator yields until next() returns None, and len_to_end() of a fresh iterator.
C6_LenAgrees ==
    it = None =>
        /\ ListLen(pl) = BLOCK_LEN * Len(pl.chunks) + Len(pl.remainders)
        /\ ListLen(pl) = Len(to_vec(pl))
        /\ ListLen(pl) = len_to_end(pl, Iter)

C6_Witness ==
    /\ it = None
    /\ res.op = "upsert"
    /\ Len(pl.chunks) = 1
    /\ Len(pl.remainders) = BLOCK_LEN - 1
    /\ Len(to_vec(pl)) = 2 * BLOCK_LEN - 1

\* C7: after from, after every upsert and after load, iter().last() is None iff the
\* list is empty, and otherwise has the id and the weight of the final element of a
\* full iteration.
C7_LastIsFinal ==
    it = None =>
        LET v == to_vec(pl)
            l == IterLast(pl)
        IN /\ (l = None) <=> (v = <<>>)
           /\ l # None => Pairs(l) = Pairs(<<v[Len(v)]>>)

C7_Witness ==
    /\ it = None
    /\ res.op = "load"
    /\ res.ok
    /\ Len(pl.chunks) = 2
    /\ pl.remainders = <<>>
    /\ IterLast(pl) # None
    /\ IterLast(pl)[1].record_id = elems[Len(elems)].record_id

\* C8: upsert of an element whose id is at most the cached last id ends in the
\* unsupported-operation outcome and leaves id_data, chunks, remainders and last
\* as they were.
C8_OutOfOrderRejected ==
    [][(res'.op = "upsert" /\ pl.last # None
          /\ res'.arg.record_id <= pl.last[1].record_id)
       => (~res'.ok /\ pl' = pl)]_vars

C8_Witness ==
    /\ res.op = "upsert"
    /\ ~res.ok
    /\ pl.chunks # <<>>
    /\ pl.remainders # <<>>
    /\ res.arg.record_id = pl.last[1].record_id

\* C9: after skip_to_end(), every later peek() and next() returns None.
C9_SkipToEndExhausts ==
    (ended /\ res.op \in {"peek", "next"}) => res.val = None

\* what the visitor of the last try_for_each was handed first
FirstVisited(r) == IF r.seen # <<>> THEN Some(r.seen[1]) ELSE r.brk

\* C10: try_for_each with a visitor breaking after k elements hands the visitor the
\* next k elements in order and returns Break with the element after them (Continue
\* when fewer than k + 1 elements remain, all of them consumed); a following
\* try_for_each starts with the element the visitor broke on.
C10_TryForEachResumes ==
    [][res'.op = "try_for_each" =>
         LET from == consumed
             n == Len(elems)
             k == res'.arg
             took == IF from + k <= n THEN k ELSE n - from
         IN /\ Pairs(res'.seen) = SubSeq(elems, from + 1, from + took)
            /\ consumed' = from + took
            /\ IF from + k < n
               THEN res'.brk # None /\ Pairs(res'.brk) = <<elems[from + k + 1]>>
               ELSE res'.brk = None
            /\ (res.op = "try_for_each" /\ res.brk # None)
                  => FirstVisited(res') = res.brk]_vars

C10_Witness ==
    /\ res.op = "try_for_each"
    /\ res.arg = BLOCK_LEN
    /\ Len(res.seen) = BLOCK_LEN
    /\ consumed = 2 * BLOCK_LEN
    /\ res.brk # None
    /\ Pairs(res.brk) = <<elems[2 * BLOCK_LEN + 1]>>


\* the block and remainder counts of a list holding n elements
CountsOf(list, n) ==
    /\ Len(list.chunks) = n \div BLOCK_LEN
    /\ Len(list.remainders) = n % BLOCK_LEN
    /\ Len(list.remainders) < BLOCK_LEN

\* C11: a list holding n elements, built or appended to, has n div BLOCK_LEN chunks
\* and n mod BLOCK_LEN remainders (so fewer than BLOCK_LEN) in every state; the
\* accepted upsert that finds BLOCK_LEN - 1 remainders adds exactly one chunk and
\* leaves no remainders, any other accepted upsert adds one remainder and no chunk.
C11_BlockCounts ==
    /\ [](CountsOf(pl, Len(elems)))
    /\ [][(res'.op = "upsert" /\ res'.ok) =>
             IF Len(pl.remainders) = BLOCK_LEN - 1
             THEN /\ Len(pl'.chunks) = Len(pl.chunks) + 1
                  /\ pl'.remainders = <<>>
             ELSE /\ Len(pl'.chunks) = Len(pl.chunks)
                  /\ Len(pl'.remainders) = Len(pl.remainders) + 1]_vars

C11_Witness ==
    /\ res.op = "upsert"
    /\ res.ok
    /\ Len(elems) = 2 * BLOCK_LEN
    /\ Len(pl.chunks) = 2
    /\ pl.remainders = <<>>

StrictlyIncreasing(ids) == \A i \in 1..(Len(ids) - 1) : ids[i] < ids[i + 1]

\* the ids a list stores: every chunk decompressed, in order, then the remainders
StoredIds(list) ==
    Flatten([c \in 1..Len(list.chunks) |-> decompress_chunk(list, c - 1)])
        \o Ids(list.remainders)

\* the elements a call handed to its caller, in the order it handed them
Handed(r) ==
    IF r.op = "try_for_each" THEN r.seen \o r.brk
    ELSE IF r.op \in {"peek", "next", "skip_to"} THEN r.val
    ELSE <<>>

\* C12: the ids stored in a list built from distinct ids or appended to are strictly
\* increasing over the chunks in order followed by the remainders (so every remainder
\* id is above every id of a chunk), and over any mix of peek, next, skip_to and
\* try_for_each calls an iterator hands out strictly increasing ids, each call
\* starting above the last element the iterator moved past.
C12_YieldsIncreasing ==
    /\ [](StrictlyIncreasing(StoredIds(pl)))
    /\ [][LET h == Ids(Handed(res'))
          IN /\ StrictlyIncreasing(h)
             /\ (h # <<>> /\ yielded # None) => yielded[1] < h[1]
             /\ (h # <<>> /\ yielded' # None /\ res'.op # "peek")
                    => yielded'[1] <= h[Len(h)]]_vars

C12_Witness ==
    /\ res.op = "try_for_each"
    /\ Len(res.seen) = BLOCK_LEN
    /\ res.brk # None
    /\ consumed = 2 * BLOCK_LEN
    /\ yielded = Some(elems[2 * BLOCK_LEN].record_id)
    /\ res.brk[1].record_id = pl.remainders[1].record_id
    /\ StrictlyIncreasing(Ids(Handed(res)))

\* C13: every element an iterator hands out has max_next_weight at least the
\* weight of every later element of the list, and the cached last element has
\* max_next_weight equal to its weight.
C13_MaxNextWeightBounds ==
    /\ \A k \in 1..Len(Handed(res)) : \A j \in 1..Len(elems) :
          elems[j].record_id > Handed(res)[k].record_id
              => Handed(res)[k].max_next_weight >= elems[j].weight
    /\ pl.last # None => pl.last[1].max_next_weight = pl.last[1].weight

IsPrefix(s, t) == Len(s) <= Len(t) /\ SubSeq(t, 1, Len(s)) = s

\* C14: an accepted upsert leaves the bytes id_data held before the call as a prefix
\* of id_data after it and every chunk header (initial, offset, weights) that existed
\* as it was; it appends bytes and at most one header, and bytes only with a header.
C14_UpsertAppendsOnly ==
    [][(res'.op = "upsert" /\ res'.ok) =>
          /\ IsPrefix(pl.id_data, pl'.id_data)
          /\ IsPrefix(pl.chunks, pl'.chunks)
          /\ Len(pl'.chunks) <= Len(pl.chunks) + 1
          /\ Len(pl'.chunks) = Len(pl.chunks) => pl'.id_data = pl.id_data]_vars

C14_Witness ==
    /\ res.op = "upsert"
    /\ res.ok
    /\ Len(pl.chunks) = 2
    /\ pl.remainders = <<>>
    /\ pl.chunks[2].offset > 0
    /\ Len(pl.id_data) > pl.chunks[2].offset
    /\ \E j \in 1..pl.chunks[2].offset : pl.id_data[j] # 0

\* C15: load on a proper prefix of the bytes of save(L), cut inside the header, the id
\* bytes, a chunk header or a remainder entry, fails with a short read and returns no
\* list.
C15_TruncatedLoadFails ==
    res.op = "load_prefix" => (res.arg < Len(Save(pl)) /\ ~res.ok)

C15_Witness ==
    /\ res.op = "load_prefix"
    /\ ~res.ok
    /\ Len(pl.chunks) = 2
    /\ pl.remainders # <<>>
    /\ pl.id_data # <<>>
    /\ res.arg = 12 + Len(pl.id_data) + 4

\* the bytes b carry list in the layout of save
SaveLayout(b, list) ==
    LET chunks_at == 12 + Len(list.id_data)
        remainders_at == chunks_at + Len(list.chunks) * (8 + 4 * BLOCK_LEN)
    IN /\ Len(b) = 12 + Len(list.id_data) + Len(list.chunks) * (8 + 4 * BLOCK_LEN)
                      + Len(list.remainders) * 8
       /\ from_ne_bytes(b, 0) = Len(list.id_data)
       /\ from_ne_bytes(b, 4) = Len(list.chunks)
       /\ from_ne_bytes(b, 8) = Len(list.remainders)
       /\ SubSeq(b, 13, chunks_at) = list.id_data
       /\ \A c \in 1..Len(list.chunks) :
             LET at == chunks_at + (c - 1) * (8 + 4 * BLOCK_LEN)
             IN /\ from_ne_bytes(b, at) = list.chunks[c].initial
                /\ from_ne_bytes(b, at + 4) = list.chunks[c].offset
                /\ \A i \in 1..BLOCK_LEN :
                      from_ne_bytes(b, at + 8 + 4 * (i - 1)) = list.chunks[c].weights[i]
       /\ \A r \in 1..Len(list.remainders) :
             LET at == remainders_at + 8 * (r - 1)
             IN /\ from_ne_bytes(b, at) = list.remainders[r].record_id
                /\ from_ne_bytes(b, at + 4) = list.remainders[r].weight

\* C16: save(L) writes three u32 fields (the length of id_data, the number of chunks,
\* the number of remainders), then id_data, then for each chunk its initial, its offset
\* and its BLOCK_LEN weights, then for each remainder its id and its weight:
\* 12 + len(id_data) + #chunks * (8 + 4 * BLOCK_LEN) + #remainders * 8 bytes in all,
\* the three fields being the lengths of the three sections.
C16_SaveLayout ==
    [][res'.op = "load" => SaveLayout(res'.bytes, pl)]_vars

C16_Witness ==
    /\ res.op = "load"
    /\ Len(pl.chunks) = 2
    /\ pl.remainders # <<>>
    /\ pl.chunks[2].offset > 0
    /\ Len(pl.id_data) > pl.chunks[2].offset
    /\ SaveLayout(res.bytes, pl)

\* C17: saving the list loaded from the bytes of save(L) writes those bytes again, byte
\* for byte (save being a function of the list, two saves of L agree), and the loaded
\* list iterates to the same sequence of elements as L.
C17_SaveStable ==
    [][res'.op = "load" =>
          /\ res'.ok
          /\ Save(pl') = res'.bytes
          /\ to_vec(pl') = to_vec(pl)]_vars

C17_Witness ==
    /\ res.op = "load"
    /\ res.ok
    /\ Save(pl) = res.bytes
    /\ Len(pl.chunks) = 1
    /\ Len(pl.remainders) = BLOCK_LEN - 1
    /\ pl.id_data # <<>>
    /\ Pairs(to_vec(pl)) = elems

\* C18: for the empty list, made by default() or by from() of no records, len() is 0,
\* last() is None, peek(), next() and skip_to(q) return None for every q, len_to_end()
\* is 0, and load(save(empty)) succeeds with an empty list.
C18_EmptyList ==
    elems = <<>> =>
        /\ ListLen(pl) = 0
        /\ IterLast(pl) = None
        /\ peek(pl, Iter).val = None
        /\ next(pl, Iter).val = None
        /\ len_to_end(pl, Iter) = 0
        /\ \A q \in Queries : skip_to(pl, Iter, q).val = None
        /\ res.op \in {"peek", "next", "skip_to"} => res.val = None
        /\ it # None => len_to_end(pl, it[1]) = 0
        /\ res.op = "load" => (res.ok /\ pl = EmptyList /\ to_vec(pl) = <<>>)

C18_Witness ==
    /\ elems = <<>>
    /\ res.op = "skip_to"
    /\ res.arg > 0
    /\ res.val = None
    /\ pl.last = None
    /\ len_to_end(pl, it[1]) = 0

\* the ids put into chunk c (1-based), and the width the codec gives them
ChunkIds(c) == Ids(SubSeq(elems, (c - 1) * BLOCK_LEN + 1, c * BLOCK_LEN))

ChunkWidth(c) == num_bits_strictly_sorted(CheckedSub1(ChunkIds(c)[1]), ChunkIds(c))

Consecutive(ids) == \A i \in 1..(Len(ids) - 1) : ids[i + 1] = ids[i] + 1

\* C19: every chunk of a list, built or appended, is packed with a width k,
\* 1 <= k <= 32, and takes exactly k * BLOCK_LEN / 8 bytes of id_data, chunks of
\* consecutive ids included.
C19_WidthAtLeastOne ==
    \A c \in 1..Len(pl.chunks) :
        /\ 1 <= ChunkWidth(c)
        /\ ChunkWidth(c) <= 32
        /\ get_chunk_size(pl.chunks, pl.id_data, c - 1) = (ChunkWidth(c) * BLOCK_LEN) \div 8

\* C19 (amended): every chunk of a list, built or appended, is packed with a width k,
\* 0 <= k <= 32, and takes exactly k * BLOCK_LEN / 8 bytes of id_data; a chunk of
\* consecutive ids has k = 0 and takes no bytes.
C19_WidthFromZero ==
    \A c \in 1..Len(pl.chunks) :
        /\ 0 <= ChunkWidth(c)
        /\ ChunkWidth(c) <= 32
        /\ get_chunk_size(pl.chunks, pl.id_data, c - 1) = (ChunkWidth(c) * BLOCK_LEN) \div 8
        /\ Consecutive(ChunkIds(c)) =>
              /\ ChunkWidth(c) = 0
              /\ get_chunk_size(pl.chunks, pl.id_data, c - 1) = 0

C19_Witness ==
    /\ res.op = "from"
    /\ Len(pl.chunks) = 2
    /\ Consecutive(ChunkIds(1))
    /\ get_chunk_size(pl.chunks, pl.id_data, 0) = 0
    /\ ~Consecutive(ChunkIds(2))
    /\ ChunkWidth(2) > 0
    /\ get_chunk_size(pl.chunks, pl.id_data, 1) = (ChunkWidth(2) * BLOCK_LEN) \div 8

\* C20: one skip_to(id) call decompresses at most one chunk, however many chunks lie
\* between the cursor and the target.
C20_SkipToOneChunk ==
    res.op = "skip_to" => res.decompressed <= 1

IdsOf(records) == {records[i][1] : i \in 1..Len(records)}

\* the weight of the first record of id among records
FirstWeight(records, id) ==
    records[CHOOSE i \in 1..Len(records) :
                /\ records[i][1] = id
                /\ \A j \in 1..(i - 1) : records[j][1] # id][2]

\* C21: from(records), built without debug assertions, of records that repeat an id
\* keeps one element per id, the first one added: the ids the list iterates to are
\* strictly increasing, each with the weight of its first record, and len() is the
\* number of distinct ids.
C21_BuildKeepsFirstOfDuplicates ==
    res.op = "from" =>
        LET v == to_vec(pl)
        IN /\ StrictlyIncreasing(Ids(v))
           /\ ListLen(pl) = Cardinality(IdsOf(res.arg))
           /\ \A i \in 1..Len(v) : v[i].weight = FirstWeight(res.arg, v[i].record_id)

\* the number of entries, counted from the c consumed ones, that come before the first
\* entry of id q or more
Before(c, q) ==
    Cardinality({i \in (c + 1)..Len(elems) : elems[i].record_id < q})

\* what an iterator that has consumed c elements of the list returns when run alone
AloneNext(c) == IF c < Len(elems) THEN <<elems[c + 1]>> ELSE <<>>

AloneSkipTo(c, q) ==
    LET at == c + Before(c, q)
    IN IF at < Len(elems) /\ elems[at + 1].record_id = q THEN <<elems[at + 1]>> ELSE <<>>

\* C22: with two iterators borrowing one list and their peek, next, skip_to and
\* try_for_each calls interleaved in any order, every call returns what it returns
\* on an iterator run alone (the elements after those this iterator has consumed,
\* whatever the other one has done), len_to_end() of the called iterator is the
\* list's length less its own consumption, the other iterator is left as it was and
\* the list is unchanged.
C22_IteratorsIndependent ==
    [][res'.op \in {"peek", "next", "skip_to", "try_for_each"} =>
          LET j == res'.iter
              o == 3 - j
              c == consumed[j]
              n == Len(elems)
          IN /\ pl' = pl
             /\ it'[o] = it[o]
             /\ consumed'[o] = consumed[o]
             /\ len_to_end(pl', it'[j]) = n - consumed'[j]
             /\ res'.op = "peek" =>
                   /\ Pairs(res'.val) = AloneNext(c)
                   /\ consumed'[j] = c
             /\ res'.op = "next" =>
                   /\ Pairs(res'.val) = AloneNext(c)
                   /\ consumed'[j] = c + Len(AloneNext(c))
             /\ res'.op = "skip_to" =>
                   /\ Pairs(res'.val) = AloneSkipTo(c, res'.arg)
                   /\ consumed'[j] = c + Before(c, res'.arg)
             /\ res'.op = "try_for_each" =>
                   LET took == IF c + res'.arg <= n THEN res'.arg ELSE n - c
                   IN /\ Pairs(res'.seen) = SubSeq(elems, c + 1, c + took)
                      /\ Pairs(res'.brk) = AloneNext(c + took)
                      /\ consumed'[j] = c + took]_vars

C22_Witness ==
    /\ Len(it) = 2
    /\ res.op = "next"
    /\ res.iter = 1
    /\ consumed[1] = 2
    /\ consumed[2] > BLOCK_LEN
    /\ consumed[2] < 2 * BLOCK_LEN
    /\ it[1].decompressed_chunk # it[2].decompressed_chunk
    /\ Pairs(res.val) = <<elems[2]>>

\* the codes of the active issues
Active == DOMAIN issues

\* C23: on the dashboard, calls made one after the other: submit (add_issue) returns
\* true exactly when no issue of the same code was active just before the call, solve
\* (remove_issue) returns true exactly when one was; after a successful submit the
\* code is active, after a successful solve it is not.
C23_SubmitSolveReturn ==
    [][/\ res'.op = "submit" =>
             /\ res'.val <=> res'.arg \notin Active
             /\ res'.val => res'.arg \in Active'
       /\ res'.op = "solve" =>
             /\ res'.val <=> res'.arg \in Active
             /\ res'.val => res'.arg \notin Active']_vars

C23_Witness ==
    /\ res.op = "solve"
    /\ res.val
    /\ res.arg \notin Active
    /\ \E c \in Active : c.distinctive = res.arg.distinctive

\* C24: solve_by_filter::<I>(filter), with nothing else running, removes every active
\* issue whose code is of type I and accepted by the filter and leaves every other
\* issue active and as it was; a submit of a code that is already active leaves the
\* dashboard as it was, one issue for that code.
C24_SolveByFilter ==
    [][/\ res'.op = "solve_by_filter" =>
             /\ Active' = {c \in Active : ~(c.issue_type = res'.type /\ c \in res'.filter)}
             /\ \A c \in Active' : issues'[c] = issues[c]
       /\ (res'.op = "submit" /\ res'.arg \in Active) =>
             /\ issues' = issues
             /\ Cardinality(Active') = Cardinality(Active)]_vars

C24_Witness ==
    /\ res.op = "solve_by_filter"
    /\ \E c \in res.codes : c \in res.filter /\ c \notin Active
    /\ \E c \in res.codes : c \notin res.filter /\ c \in Active
    /\ \E c \in Active : c.issue_type # res.type /\ c \in res.filter

\* C25: peek() does not advance the iterator: in every iterator state it returns the
\* element the next() that follows it returns, a second peek() returns the same
\* element again, and len_to_end() is the same after the peek as before it.
C25_PeekDoesNotAdvance ==
    [][res'.op = "peek" =>
          /\ next(pl', it'[1]).val = res'.val
          /\ peek(pl', it'[1]).val = res'.val
          /\ peek(pl', peek(pl', it'[1]).it).val = res'.val
          /\ len_to_end(pl', it'[1]) = len_to_end(pl, it[1])]_vars

\* a peek, the first call on the iterator at the start of the second block, returned
\* the block's first element
C25_Witness ==
    /\ res.op = "peek"
    /\ consumed = BLOCK_LEN
    /\ Len(elems) > BLOCK_LEN + 1
    /\ Pairs(res.val) = <<elems[BLOCK_LEN + 1]>>
    /\ it[1].decompressed_chunk_idx = 1
    /\ it[1].decompressed_chunk_start_index = 0

\* C26: when skip_to(q) returns Some(e), e is not consumed: the peek() that follows
\* returns e, and a second skip_to(q) returns Some(e) again and leaves len_to_end()
\* as the first one left it.
C26_SkipToKeepsMatch ==
    [][(res'.op = "skip_to" /\ res'.val # None) =>
          /\ res'.val[1].record_id = res'.arg
          /\ peek(pl', it'[1]).val = res'.val
          /\ skip_to(pl', it'[1], res'.arg).val = res'.val
          /\ skip_to(pl', it'[1], res'.arg).n = 0
          /\ len_to_end(pl', skip_to(pl', it'[1], res'.arg).it) = len_to_end(pl', it'[1])
          /\ len_to_end(pl', it'[1]) = Len(elems) - consumed']_vars

\* a skip_to that passed elements of the first block and matched in the second
C26_Witness ==
    /\ res.op = "skip_to"
    /\ res.val # None
    /\ consumed > BLOCK_LEN
    /\ consumed < 2 * BLOCK_LEN
    /\ res.decompressed = 2
    /\ Pairs(res.val) = <<elems[consumed + 1]>>

\* the bytes the chunks before chunk c (1-based) take, from the ids put into them
RECURSIVE SizesBefore(_)
SizesBefore(c) ==
    IF c = 1 THEN 0 ELSE SizesBefore(c - 1) + compressed_block_size(ChunkWidth(c - 1))

\* C27: in every list, built or appended to, each chunk header's initial is the first
\* and smallest id of its chunk, the offsets do not decrease from one chunk to the
\* next, the offset of a chunk is the sum of the compressed sizes of the chunks before
\* it (0 for the first), and the last chunk ends where id_data ends.
C27_Headers ==
    /\ \A c \in 1..Len(pl.chunks) :
          /\ pl.chunks[c].initial = ChunkIds(c)[1]
          /\ \A i \in 1..BLOCK_LEN : pl.chunks[c].initial <= ChunkIds(c)[i]
          /\ pl.chunks[c].offset = SizesBefore(c)
          /\ c > 1 => pl.chunks[c - 1].offset <= pl.chunks[c].offset
    /\ Len(pl.chunks) > 0 =>
          pl.chunks[Len(pl.chunks)].offset
             + compressed_block_size(ChunkWidth(Len(pl.chunks))) = Len(pl.id_data)
    /\ Len(pl.chunks) = 0 => pl.id_data = <<>>

\* a list that grew by upserts to two chunks, both taking bytes
C27_Witness ==
    /\ res.op = "upsert"
    /\ res.ok
    /\ Len(pl.chunks) = 2
    /\ pl.chunks[1].offset = 0
    /\ pl.chunks[2].offset = compressed_block_size(ChunkWidth(1))
    /\ pl.chunks[2].offset > 0
    /\ pl.chunks[2].initial > 0
    /\ Len(pl.id_data) > pl.chunks[2].offset

\* C28: over accepted upserts, id_data changes length only on the upsert that brings
\* the remainders to BLOCK_LEN elements: there it grows by exactly the compressed size
\* of the new chunk at its width, and the chunk headers grow by exactly one; on every
\* other accepted upsert both keep their length and the remainders grow by one.
C28_UpsertGrowth ==
    [][(res'.op = "upsert" /\ res'.ok) =>
          IF Len(pl.remainders) + 1 = BLOCK_LEN
          THEN LET ids == Append(Ids(pl.remainders), res'.arg.record_id)
                   bits == num_bits_strictly_sorted(CheckedSub1(ids[1]), ids)
               IN /\ Len(pl'.id_data) = Len(pl.id_data) + (bits * BLOCK_LEN) \div 8
                  /\ Len(pl'.chunks) = Len(pl.chunks) + 1
          ELSE /\ Len(pl'.id_data) = Len(pl.id_data)
               /\ Len(pl'.chunks) = Len(pl.chunks)
               /\ Len(pl'.remainders) = Len(pl.remainders) + 1]_vars

\* the upsert that filled the second chunk, after one into the remainders of a list
\* whose first chunk takes bytes
C28_Witness ==
    /\ res.op = "upsert"
    /\ res.ok
    /\ Len(pl.chunks) = 2
    /\ pl.remainders = <<>>
    /\ ChunkWidth(1) > 0
    /\ ChunkWidth(2) > 0
    /\ Len(pl.id_data) = ((ChunkWidth(1) + ChunkWidth(2)) * BLOCK_LEN) \div 8

\* C29: for every chunk of every list, built or appended to, the width recovered when
\* decoding, 8 * stored bytes / BLOCK_LEN with the stored bytes taken from the next
\* header's offset or from the end of id_data, is the width the chunk was encoded
\* with, and decoding it from the predecessor initial - 1 (none when initial is 0)
\* gives back exactly the BLOCK_LEN ids that were encoded.
C29_DecodeRoundTrip ==
    \A c \in 1..Len(pl.chunks) :
        /\ (get_chunk_size(pl.chunks, pl.id_data, c - 1) * 8) \div BLOCK_LEN = ChunkWidth(c)
        /\ decompress_chunk(pl, c - 1) = ChunkIds(c)

\* two chunks of different widths, the first starting at id 0, decoded from a list
\* that came back from load
C29_Witness ==
    /\ res.op = "load"
    /\ res.ok
    /\ Len(pl.chunks) = 2
    /\ pl.chunks[1].initial = 0
    /\ ChunkWidth(1) # ChunkWidth(2)
    /\ ChunkWidth(2) > 0
    /\ decompress_chunk(pl, 1) = ChunkIds(2)

\* the chunks an iterator has decompressed, for the chunks of its list, the elements
\* taken from it and whether the chunk under its cursor is decompressed
DecompressedFor(nchunks, c, under) ==
    IF c >= nchunks * BLOCK_LEN THEN nchunks
    ELSE IF c % BLOCK_LEN # 0 \/ under THEN c \div BLOCK_LEN + 1
    ELSE c \div BLOCK_LEN

\* the cursor is inside a chunk that the iterator holds decompressed
InsideChunk(list, i) ==
    /\ i.decompressed_chunk_idx < Len(list.chunks)
    /\ i.decompressed_chunk_start_index < BLOCK_LEN

\* C30: iter() decompresses no chunk; through any mix of peek, next and try_for_each
\* calls, the visitors breaking anywhere, up to the end of the list, the iterator
\* decompresses each chunk exactly once, when its cursor first reaches it: the count
\* of decompress_chunk calls is the number of chunks reached, a call that stays in
\* the chunk already decompressed decompresses nothing and keeps the chunk buffer.
C30_DecompressOnce ==
    /\ []((it # None /\ ~ended) =>
             /\ res.op = "iter" => it[1].decompressions = 0
             /\ it[1].decompressions
                   = DecompressedFor(Len(pl.chunks), consumed, InsideChunk(pl, it[1]))
             /\ InsideChunk(pl, it[1]) =>
                   /\ it[1].decompressions = it[1].decompressed_chunk_idx + 1
                   /\ it[1].decompressed_chunk
                         = decompress_chunk(pl, it[1].decompressed_chunk_idx)
                   /\ consumed = it[1].decompressed_chunk_idx * BLOCK_LEN
                                    + it[1].decompressed_chunk_start_index)
    /\ [][(res'.op \in {"peek", "next", "try_for_each"} /\ ~ended
              /\ InsideChunk(pl, it[1])
              /\ consumed' < (it[1].decompressed_chunk_idx + 1) * BLOCK_LEN) =>
             /\ it'[1].decompressions = it[1].decompressions
             /\ it'[1].decompressed_chunk = it[1].decompressed_chunk]_vars

\* a scan of a list of two chunks and remainders that ended after a call resumed
\* inside the second chunk: two chunks decompressed in all
C30_Witness ==
    /\ it # None
    /\ ~ended
    /\ res.op = "try_for_each"
    /\ res.brk = None
    /\ Len(res.seen) < BLOCK_LEN
    /\ Len(res.seen) > Len(pl.remainders)
    /\ consumed = Len(elems)
    /\ Len(pl.chunks) = 2
    /\ pl.remainders # <<>>
    /\ it[1].decompressions = 2

\* C31: try_for_each returns Continue only when the visitor returned Continue for
\* every element that remained; after it has returned Continue the iterator is
\* exhausted: len_to_end() is 0, peek() and next() return None and a further
\* try_for_each calls its visitor on nothing.
C31_ContinueExhausts ==
    (it # None /\ res.op = "try_for_each" /\ res.brk = None) =>
        /\ Len(res.seen) <= res.arg
        /\ len_to_end(pl, it[1]) = 0
        /\ peek(pl, it[1]).val = None
        /\ next(pl, it[1]).val = None
        /\ \A k \in Breaks :
              /\ try_for_each(pl, it[1], k).seen = <<>>
              /\ try_for_each(pl, it[1], k).brk = None

\* C32: after skip_to_end(), on an iterator in any state over any list, len_to_end()
\* returns 0: it neither underflows nor returns a positive count.
C32_SkipToEndLenZero ==
    (it # None /\ res.op = "skip_to_end") => len_to_end(pl, it[1]) = 0

\* C33: the two construction paths agree: the list made by upserting a strictly
\* increasing sequence element by element, each element with max_next_weight equal to
\* its weight, equals PostingList::from of the sequence field by field (id_data,
\* chunks, remainders, last).
C33_UpsertsEqualFrom ==
    (res.op = "upsert" /\ res.ok) =>
        LET built == From(Records(elems))
        IN /\ pl.id_data = built.id_data
           /\ pl.chunks = built.chunks
           /\ pl.remainders = built.remainders
           /\ res.arg.max_next_weight = res.arg.weight => pl.last = built.last

\* the upsert that took a list past its second chunk
C33_Witness ==
    /\ res.op = "upsert"
    /\ res.ok
    /\ res.arg.max_next_weight = res.arg.weight
    /\ Len(elems) = 2 * BLOCK_LEN + 1
    /\ Len(pl.chunks) = 2
    /\ Len(pl.id_data) > 0
    /\ pl = From(Records(elems))

\* C34: skip_to never moves the cursor backwards: when the iterator's next element has
\* an id above q, or the iterator is exhausted, skip_to(q) returns None, consumes
\* nothing and leaves len_to_end() and the result of the next peek() as they were,
\* also when q is the id of an element consumed earlier.
C34_SkipToNeverBack ==
    [][(res'.op = "skip_to"
          /\ \/ peek(pl, it[1]).val = None
             \/ peek(pl, it[1]).val[1].record_id > res'.arg) =>
          /\ res'.val = None
          /\ consumed' = consumed
          /\ yielded' = yielded
          /\ len_to_end(pl', it'[1]) = len_to_end(pl, it[1])
          /\ peek(pl', it'[1]).val = peek(pl, it[1]).val]_vars

\* skip_to of the id of an element consumed earlier, elements remaining
C34_Witness ==
    /\ res.op = "skip_to"
    /\ res.val = None
    /\ consumed > BLOCK_LEN
    /\ consumed < Len(elems)
    /\ \E i \in 1..consumed : elems[i].record_id = res.arg
    /\ Pairs(peek(pl, it[1]).val) = <<elems[consumed + 1]>>

\* the structural invariants of a list: header offsets inside id_data and not
\* decreasing, every chunk's size a multiple of BLOCK_LEN / 8 for a width of at most 32
Structural(list) ==
    \A c \in 1..Len(list.chunks) :
        /\ list.chunks[c].offset <= Len(list.id_data)
        /\ c > 1 => list.chunks[c - 1].offset <= list.chunks[c].offset
        /\ LET size == get_chunk_size(list.chunks, list.id_data, c - 1)
           IN /\ (size * 8) % BLOCK_LEN = 0
              /\ (size * 8) \div BLOCK_LEN <= 32

\* C35: load of an arbitrary byte sequence returns an I/O error or a list that
\* satisfies the structural invariants; it never panics or reads outside id_data
\* when the header or the chunk offsets do not fit the body.
C35_LoadAnyBytes ==
    res.op = "load_bytes" =>
        \/ res.outcome = "err"
        \/ res.outcome = "ok" /\ Structural(res.val[1])

\* the threads whose call is about code c, and those of them that returned true
CallsOn(c) == {t \in DOMAIN threads : threads[t].code = c}

ReturnedTrue(c) == {t \in CallsOn(c) : threads[t].val = Some(TRUE)}

\* C36: when two or more threads submit issues of one code at the same time and the
\* code was inactive, exactly one submit returns true and the code ends up active;
\* when they solve one active code at the same time, exactly one solve returns true
\* (and the code ends up inactive); under every interleaving of the contains_key
\* checks with the inserts and removes.
C36_OneWinner ==
    \A c \in RacedCodes :
        (/\ res.op = "spawn"
         /\ Cardinality(CallsOn(c)) >= 2
         /\ \A t \in CallsOn(c) : threads[t].pc = "done") =>
            /\ (c \notin res.active /\ \A t \in CallsOn(c) : threads[t].op = "submit") =>
                  /\ Cardinality(ReturnedTrue(c)) = 1
                  /\ c \in Active
            /\ (c \in res.active /\ \A t \in CallsOn(c) : threads[t].op = "solve") =>
                  /\ Cardinality(ReturnedTrue(c)) = 1
                  /\ c \notin Active

\* two submits of one inactive code, both past contains_key before either inserted:
\* one insert returned true, the other false
C36_Witness ==
    /\ res.op = "spawn"
    /\ \E c \in RacedCodes :
          /\ c \notin res.active
          /\ Cardinality(CallsOn(c)) >= 2
          /\ \A t \in CallsOn(c) : threads[t].op = "submit" /\ threads[t].pc = "done"
          /\ Cardinality(ReturnedTrue(c)) = 1
          /\ \E t \in CallsOn(c) :
                /\ threads[t].val = Some(FALSE)
                /\ threads[t].ret = Some("insert")
          /\ c \in Active

\* the keys below total_vector_count() whose deleted flag is set
DeletedKeys(s) == {key \in 0..(Len(s.vectors) - 1) : get(s.deleted, key)}

\* C37: in the appendable multi-vector storage, after opening and after any sequence
\* of insert_vector, delete_vector and update_from calls, deleted_vector_count() is
\* the number of keys below total_vector_count() whose deleted flag is set; deleting
\* a key at or past the vector count returns false and changes neither the flags nor
\* the count, and deleting a key already deleted does not change the count.
C37_DeletedCount ==
    /\ [](storage.deleted_count = Cardinality(DeletedKeys(storage)))
    /\ [][res'.op = "delete_vector" =>
             /\ res'.key >= Len(storage.vectors) =>
                   /\ ~res'.val
                   /\ storage' = storage
             /\ (res'.key < Len(storage.vectors) /\ get(storage.deleted, res'.key)) =>
                   /\ res'.val
                   /\ storage'.deleted_count = storage.deleted_count
             /\ (res'.key < Len(storage.vectors) /\ ~get(storage.deleted, res'.key)) =>
                   /\ ~res'.val
                   /\ storage'.deleted_count = storage.deleted_count + 1]_vars

\* a delete at the vector count, on a storage that holds a deleted and a live vector
C37_Witness ==
    /\ res.op = "delete_vector"
    /\ res.key = Len(storage.vectors)
    /\ ~res.val
    /\ storage.deleted_count = 1
    /\ Len(storage.vectors) = 2
    /\ get(storage.deleted, 0)
    /\ ~get(storage.deleted, 1)
    /\ ~get(storage.deleted, 2)

====
